---- MODULE Spec2Model ----
(***************************************************************************)
(* Habit tracker backend (HHH): the entry service, the group/membership    *)
(* service and the REST handlers of backend/main.py as state machines over *)
(* their relational stores.                                                *)
(*                                                                         *)
(* Two independent stores exist in the repository:                         *)
(*   - backend/src (services + GraphQL): section_entries, groups,          *)
(*     group_members, with soft delete (deleted_at);                       *)
(*   - backend/main.py (REST): entries, groups, group_members of           *)
(*     backend/models.py, with physical delete.                            *)
(* Dates are day numbers; `today' is the server clock's date.today().      *)
(***************************************************************************)
EXTENDS Integers, Sequences, FiniteSets, TLC

\* ---------------------------------------------------------------- bounds
MaxUser == 2
MaxGroup == 2
MaxDay == 2
MaxRows == 2
MaxEdits == 1
MaxProc == 2
MaxRestUser == 3
MaxRestGroup == 1
MaxMemberRows == 2
MaxSvcGroup == 1
MaxAudit == 2
MaxTime == 4
MaxCalls == 4
WindowSeconds == 2

Users == 1..MaxUser
Groups == 1..MaxGroup
Days == 0..MaxDay
Procs == 1..MaxProc
RestUsers == 1..MaxRestUser

\* Optional[...] = None for dates, ids and timestamps
NoDate == -1
NoGroup == 0
\* A set timestamp (deleted_at = datetime.now(...)): the code only ever tests
\* deleted_at for NULL, so every instant is the one value Now.
Now == -2

\* models/entry.py SectionType
SectionType == {"Health", "Happiness", "Hela"}
NoSection == "None"

\* Text is a sequence of characters; " " is whitespace.
NoContent == <<"None">>
RawContents == {<<" ">>, <<" ", "a", " ">>}

VARIABLES
    today,            \* date.today() of the server clock
    dialect,          \* database behind settings.database_url
    section_entries,  \* table section_entries: id = position
    result,           \* outcome of the last call: [op, status, value]
    race_pc,          \* per concurrent request: "idle" or "checked"
    race_args,        \* per concurrent request: the row it is about to insert
    race_reply,       \* per concurrent request: the answer it got
    rest_groups,      \* main.py table groups: id = position, [name, owner_id]
    rest_members,     \* main.py table group_members: set of <<group_id, user_id>>
    rest_entries,     \* main.py table entries: set of rows
    rest_result,      \* last REST response: [op, group_id, status, caller, user_id, data]
    svc_groups,       \* src/models table groups: id = position
    group_members,    \* src/models table group_members: id = position
    gql_result,       \* last GraphQL group mutation: [op, status, caller, group_id, user_id]
    users,            \* src/models table users: id -> [role, deleted_at]
    audit_logs,       \* src/models table audit_logs: id = position
    rest_accounts,    \* main.py table users: the registered emails
    is_production,    \* main.py is_production (env RENDER = "true")
    email_configured, \* email_service.is_email_configured() (RESEND_API_KEY set)
    fp_response,      \* last answer of forgot_password: [op, email, body]
    mono,             \* time.monotonic(), in whole seconds
    STORE,            \* rate_limit._STORE: key -> deque of timestamps
    rl_pc,            \* per thread in check_rate_limit: "idle" or "waiting" for _LOCK
    rl_now,           \* per thread: the local `now'
    rl_key,           \* per thread: the key argument
    rl_reply,         \* last answer of check_rate_limit: [key, now, allowed]
    admitted,         \* per key and timestamp: how many calls were answered True
    rl_calls          \* calls begun so far

entryVars == <<today, dialect, section_entries, result>>
raceVars == <<race_pc, race_args, race_reply>>
authVars == <<rest_accounts, is_production, email_configured, fp_response>>
rateVars == <<mono, STORE, rl_pc, rl_now, rl_key, rl_reply, admitted, rl_calls>>
restVars == <<rest_groups, rest_members, rest_entries, rest_result, authVars,
              rateVars>>
groupVars == <<svc_groups, group_members, gql_result>>
adminVars == <<users, audit_logs>>
vars == <<entryVars, raceVars, restVars, groupVars, adminVars>>
\* what the entry service's sequential calls leave alone
nonEntryVars == <<raceVars, restVars, groupVars, adminVars>>
\* what the REST group and entry handlers leave alone
nonRestVars == <<today, dialect, section_entries, result, raceVars, groupVars,
                 adminVars, authVars, rateVars>>
\* what the group service leaves alone
nonGroupVars == <<entryVars, raceVars, restVars, adminVars>>

\* ------------------------------------------------------------ str.strip
RECURSIVE lstrip(_)
lstrip(c) ==
    IF c # <<>> /\ Head(c) = " " THEN lstrip(Tail(c)) ELSE c

RECURSIVE rstrip(_)
rstrip(c) ==
    IF c # <<>> /\ c[Len(c)] = " " THEN rstrip(SubSeq(c, 1, Len(c) - 1)) ELSE c

strip(c) == rstrip(lstrip(c))

\* -------------------------------------------------- table section_entries
SameKey(a, b) ==
    /\ a.user_id = b.user_id
    /\ a.group_id = b.group_id
    /\ a.section_type = b.section_type
    /\ a.entry_date = b.entry_date

\* Index uq_active_daily_section_entry: unique on (user_id, group_id,
\* section_type, entry_date), WHERE deleted_at IS NULL on PostgreSQL; other
\* dialects drop the postgresql_where condition and index every row.
uq_active_daily_section_entry_NoIndex(rows) == TRUE

uq_active_daily_section_entry(rows) ==
    \A i, j \in DOMAIN rows :
        (i # j /\ SameKey(rows[i], rows[j])) =>
            IF dialect = "postgresql"
            THEN rows[i].deleted_at # NoDate \/ rows[j].deleted_at # NoDate
            ELSE FALSE

\* db.commit() of a changed table: the flush raises IntegrityError when the
\* unique index rejects it, and nothing is stored.
Commit(rows, op) ==
    IF uq_active_daily_section_entry(rows)
    THEN /\ section_entries' = rows
         /\ result' = [op |-> op, status |-> "ok", value |-> 0]
    ELSE /\ section_entries' = section_entries
         /\ result' = [op |-> op, status |-> "IntegrityError", value |-> 0]

Raise(op, msg) ==
    /\ result' = [op |-> op, status |-> msg, value |-> 0]
    /\ UNCHANGED section_entries

\* _get_entry_by_id: the active row with this id, or none
IsActiveEntry(id) ==
    id \in DOMAIN section_entries /\ section_entries[id].deleted_at = NoDate

\* the existence query of create_entry
ExistingActive(u, g, s, d) ==
    {i \in DOMAIN section_entries :
        /\ section_entries[i].user_id = u
        /\ section_entries[i].group_id = g
        /\ section_entries[i].section_type = s
        /\ section_entries[i].entry_date = d
        /\ section_entries[i].deleted_at = NoDate}

\* flagged_reason = None
NoReason == "None"

NewEntry(u, g, s, c, d) ==
    [user_id |-> u, group_id |-> g, section_type |-> s, content |-> strip(c),
     entry_date |-> d, edit_count |-> 0, is_flagged |-> FALSE,
     flagged_reason |-> NoReason, deleted_at |-> NoDate]

\* create_entry up to its db.add: the content test and the existence query
create_entry_check(u, g, s, c, edate) ==
    IF c = <<>> \/ strip(c) = <<>>
    THEN "ValueError: Content must not be empty"
    ELSE IF ExistingActive(u, g, s, edate) # {}
    THEN "ValueError: Entry already exists for this section today"
    ELSE "pass"

create_entry_Upsert(u, g, s, c, entry_date) ==
    LET edate == IF entry_date # NoDate THEN entry_date ELSE today
        chk == create_entry_check(u, g, s, c, edate)
        existing == ExistingActive(u, g, s, edate)
    IN
    /\ UNCHANGED <<today, dialect, nonEntryVars>>
    /\ IF chk = "ValueError: Content must not be empty"
       THEN Raise("create_entry", chk)
       ELSE IF existing # {}
       THEN Commit([i \in DOMAIN section_entries |->
                       IF i \in existing
                       THEN [section_entries[i] EXCEPT !.content = strip(c)]
                       ELSE section_entries[i]], "create_entry")
       ELSE /\ Len(section_entries) < MaxRows
            /\ Commit(Append(section_entries, NewEntry(u, g, s, c, edate)), "create_entry")

\* services/entry.py create_entry; entry_date = NoDate is "not given"
create_entry(u, g, s, c, entry_date) ==
    LET edate == IF entry_date # NoDate THEN entry_date ELSE today
        chk == create_entry_check(u, g, s, c, edate)
    IN
    /\ UNCHANGED <<today, dialect, nonEntryVars>>
    /\ IF chk # "pass"
       THEN Raise("create_entry", chk)
       ELSE /\ Len(section_entries) < MaxRows
            /\ Commit(Append(section_entries, NewEntry(u, g, s, c, edate)), "create_entry")

update_entry_NoCount(id, c, s) ==
    /\ UNCHANGED <<today, dialect, nonEntryVars>>
    /\ IF ~IsActiveEntry(id)
       THEN Raise("update_entry", "ValueError: Entry not found or deleted")
       ELSE IF c # NoContent /\ strip(c) = <<>>
       THEN Raise("update_entry", "ValueError: Content must not be empty")
       ELSE LET e == section_entries[id]
                e1 == IF c # NoContent THEN [e EXCEPT !.content = strip(c)] ELSE e
                e2 == IF s # NoSection THEN [e1 EXCEPT !.section_type = s] ELSE e1
            IN /\ e2.edit_count <= MaxEdits
               /\ Commit([section_entries EXCEPT ![id] = e2], "update_entry")

\* services/entry.py update_entry; NoContent / NoSection are "not given"
update_entry(id, c, s) ==
    /\ UNCHANGED <<today, dialect, nonEntryVars>>
    /\ IF ~IsActiveEntry(id)
       THEN Raise("update_entry", "ValueError: Entry not found or deleted")
       ELSE IF c # NoContent /\ strip(c) = <<>>
       THEN Raise("update_entry", "ValueError: Content must not be empty")
       ELSE LET e == section_entries[id]
                e1 == IF c # NoContent
                      THEN [e EXCEPT !.content = strip(c), !.edit_count = e.edit_count + 1]
                      ELSE e
                e2 == IF s # NoSection THEN [e1 EXCEPT !.section_type = s] ELSE e1
            IN /\ e2.edit_count <= MaxEdits
               /\ Commit([section_entries EXCEPT ![id] = e2], "update_entry")

\* services/entry.py soft_delete_entry
soft_delete_entry(id) ==
    /\ UNCHANGED <<today, dialect, nonEntryVars>>
    /\ IF ~IsActiveEntry(id)
       THEN Raise("soft_delete_entry", "ValueError: Entry not found or deleted")
       ELSE Commit([section_entries EXCEPT ![id].deleted_at = Now], "soft_delete_entry")

restore_entry_AnyUser(id, u) ==
    /\ UNCHANGED <<today, dialect, nonEntryVars>>
    /\ IF ~(id \in DOMAIN section_entries)
       THEN Raise("restore_entry", "ValueError: Entry not found")
       ELSE IF section_entries[id].deleted_at = NoDate
       THEN Raise("restore_entry", "ValueError: Entry is not deleted")
       ELSE Commit([section_entries EXCEPT ![id].deleted_at = NoDate], "restore_entry")

\* services/entry.py restore_entry
restore_entry(id, u) ==
    /\ UNCHANGED <<today, dialect, nonEntryVars>>
    /\ IF ~(id \in DOMAIN section_entries /\ section_entries[id].user_id = u)
       THEN Raise("restore_entry", "ValueError: Entry not found")
       ELSE IF section_entries[id].deleted_at = NoDate
       THEN Raise("restore_entry", "ValueError: Entry is not deleted")
       ELSE Commit([section_entries EXCEPT ![id].deleted_at = NoDate], "restore_entry")

\* ------------------------------------- list_entries_today, daily progress
\* the query of list_entries_today: ids of the user's active rows of today,
\* filtered by group when group_id is truthy
EntriesToday(u, g) ==
    {i \in DOMAIN section_entries :
        /\ section_entries[i].user_id = u
        /\ section_entries[i].entry_date = today
        /\ section_entries[i].deleted_at = NoDate
        /\ (g # NoGroup => section_entries[i].group_id = g)}

\* services/entry.py list_entries_today
list_entries_today(u, g) ==
    /\ result' = [op |-> "list_entries_today", status |-> "ok",
                  value |-> EntriesToday(u, g)]
    /\ UNCHANGED <<today, dialect, section_entries, nonEntryVars>>

daily_progress_CountsRows(u, d, g) ==
    LET entries == {i \in DOMAIN section_entries :
                      /\ section_entries[i].user_id = u
                      /\ section_entries[i].entry_date = d
                      /\ section_entries[i].deleted_at = NoDate
                      /\ (g # NoGroup => section_entries[i].group_id = g)}
        total_sections == Cardinality(SectionType)
    IN
    [date |-> d,
     total_entries |-> Cardinality(entries),
     completed_sections |-> Cardinality(entries),
     total_sections |-> total_sections,
     progress_percentage |-> <<Cardinality(entries) * 100, total_sections>>,
     entries |-> entries]

\* what get_daily_progress returns; progress_percentage, the float
\* completed_sections / total_sections * 100, is kept as the fraction
\* <<completed_sections * 100, total_sections>>
daily_progress(u, d, g) ==
    LET entries == {i \in DOMAIN section_entries :
                      /\ section_entries[i].user_id = u
                      /\ section_entries[i].entry_date = d
                      /\ section_entries[i].deleted_at = NoDate
                      /\ (g # NoGroup => section_entries[i].group_id = g)}
        completed_sections ==
            Cardinality({section_entries[i].section_type : i \in entries})
        total_sections == Cardinality(SectionType)
    IN
    [date |-> d,
     total_entries |-> Cardinality(entries),
     completed_sections |-> completed_sections,
     total_sections |-> total_sections,
     progress_percentage |-> IF total_sections > 0
                             THEN <<completed_sections * 100, total_sections>>
                             ELSE <<0, 1>>,
     entries |-> entries]

\* services/entry.py get_daily_progress
get_daily_progress(u, d, g) ==
    /\ result' = [op |-> "get_daily_progress", status |-> "ok",
                  value |-> daily_progress(u, d, g)]
    /\ UNCHANGED <<today, dialect, section_entries, nonEntryVars>>

\* ------------------------------------------------------ calculate_streak
\* the query of calculate_streak: distinct entry_date of the user's active
\* rows, filtered by group when group_id is truthy
EntryDates(u, g) ==
    {section_entries[i].entry_date : i \in {j \in DOMAIN section_entries :
        /\ section_entries[j].user_id = u
        /\ section_entries[j].deleted_at = NoDate
        /\ (g # NoGroup => section_entries[j].group_id = g)}}

\* the loop `while current_date in entry_dates'
RECURSIVE CountBackwards(_, _)
CountBackwards(entry_dates, current_date) ==
    IF current_date \in entry_dates
    THEN 1 + CountBackwards(entry_dates, current_date - 1)
    ELSE 0

calculate_streak_SkipsToday(u, g) ==
    LET entry_dates == EntryDates(u, g) IN
    IF entry_dates = {} THEN 0
    ELSE IF today \in entry_dates
    THEN 1 + CountBackwards(entry_dates, today - 1)
    ELSE CountBackwards(entry_dates, today - 1)

calculate_streak(u, g) ==
    LET entry_dates == EntryDates(u, g) IN
    IF entry_dates = {} THEN 0
    ELSE IF today \in entry_dates
    THEN 1 + CountBackwards(entry_dates, today - 1)
    ELSE 0

\* GraphQL Query.streak -> calculate_streak
streak(u, g) ==
    /\ result' = [op |-> "calculate_streak", status |-> "ok",
                  value |-> calculate_streak(u, g)]
    /\ UNCHANGED <<today, dialect, section_entries, nonEntryVars>>

\* the server clock passes midnight
Tick ==
    /\ today < MaxDay
    /\ today' = today + 1
    /\ UNCHANGED <<dialect, section_entries, result, nonEntryVars>>

\* ======================================================= backend/main.py
\* Optional[int] = None for the user_id query parameter
NoUser == 0
\* main.py VALID_SECTIONS
VALID_SECTIONS == {"health", "happiness", "hela"}
MAX_HISTORY_DAYS == 365

Reply(op, group_id, status, caller, user_id, data) ==
    rest_result' = [op |-> op, group_id |-> group_id, status |-> status,
                    caller |-> caller, user_id |-> user_id, data |-> data]

GroupExists(g) == g \in DOMAIN rest_groups
IsMember(g, u) == <<g, u>> \in rest_members

\* main.py verify_group_owner
verify_group_owner_AnyMember(group_id, user_id) ==
    GroupExists(group_id) /\ IsMember(group_id, user_id)

verify_group_owner(group_id, user_id) ==
    GroupExists(group_id) /\ rest_groups[group_id].owner_id = user_id

\* POST /api/groups: the group row is committed, then the owner's
\* membership row in a second commit; db_error names the commit that raises
\* SQLAlchemyError ("none", "first" or "second"), answered with 500 after a
\* rollback of the open transaction
rest_create_group_commits(caller, name, db_error) ==
    /\ Len(rest_groups) < MaxRestGroup
    /\ rest_groups' = IF db_error = "first" THEN rest_groups
                      ELSE Append(rest_groups, [name |-> name, owner_id |-> caller])
    /\ rest_members' = IF db_error = "none"
                       THEN rest_members \cup {<<Len(rest_groups) + 1, caller>>}
                       ELSE rest_members
    /\ IF db_error = "none"
       THEN Reply("create_group", Len(rest_groups) + 1, 200, caller, NoUser, <<>>)
       ELSE Reply("create_group", NoGroup, 500, caller, NoUser, <<>>)
    /\ UNCHANGED <<rest_entries, nonRestVars>>

\* POST /api/groups when the database accepts both commits
rest_create_group(caller, name) == rest_create_group_commits(caller, name, "none")

\* PUT /api/groups/{group_id}
rest_update_group(group_id, caller, name) ==
    /\ IF ~GroupExists(group_id)
       THEN /\ Reply("update_group", group_id, 404, caller, NoUser, <<>>)
            /\ UNCHANGED rest_groups
       ELSE IF rest_groups[group_id].owner_id # caller
       THEN /\ Reply("update_group", group_id, 403, caller, NoUser, <<>>)
            /\ UNCHANGED rest_groups
       ELSE /\ rest_groups' = [rest_groups EXCEPT ![group_id].name = name]
            /\ Reply("update_group", group_id, 200, caller, NoUser, <<>>)
    /\ UNCHANGED <<rest_members, rest_entries, nonRestVars>>

\* POST /api/groups/{group_id}/members; the email is given as the id of the
\* user registered with it, or NoUser when no user has it
rest_add_member(group_id, caller, email) ==
    /\ IF ~GroupExists(group_id)
       THEN /\ Reply("add_member", group_id, 404, caller, email, <<>>)
            /\ UNCHANGED rest_members
       ELSE IF rest_groups[group_id].owner_id # caller
       THEN /\ Reply("add_member", group_id, 403, caller, email, <<>>)
            /\ UNCHANGED rest_members
       ELSE IF email \notin RestUsers
       THEN /\ Reply("add_member", group_id, 404, caller, email, <<>>)
            /\ UNCHANGED rest_members
       ELSE IF IsMember(group_id, email)
       THEN /\ Reply("add_member", group_id, 400, caller, email, <<>>)
            /\ UNCHANGED rest_members
       ELSE /\ rest_members' = rest_members \cup {<<group_id, email>>}
            /\ Reply("add_member", group_id, 200, caller, email, <<>>)
    /\ UNCHANGED <<rest_groups, rest_entries, nonRestVars>>

\* DELETE /api/groups/{group_id}/members/{user_id}
rest_remove_member_NoOwnerGuard(group_id, user_id, caller) ==
    /\ IF ~GroupExists(group_id)
       THEN /\ Reply("remove_member", group_id, 404, caller, user_id, <<>>)
            /\ UNCHANGED rest_members
       ELSE IF rest_groups[group_id].owner_id # caller
       THEN /\ Reply("remove_member", group_id, 403, caller, user_id, <<>>)
            /\ UNCHANGED rest_members
       ELSE IF ~IsMember(group_id, user_id)
       THEN /\ Reply("remove_member", group_id, 404, caller, user_id, <<>>)
            /\ UNCHANGED rest_members
       ELSE /\ rest_members' = rest_members \ {<<group_id, user_id>>}
            /\ Reply("remove_member", group_id, 200, caller, user_id, <<>>)
    /\ UNCHANGED <<rest_groups, rest_entries, nonRestVars>>

rest_remove_member(group_id, user_id, caller) ==
    /\ IF ~GroupExists(group_id)
       THEN /\ Reply("remove_member", group_id, 404, caller, user_id, <<>>)
            /\ UNCHANGED rest_members
       ELSE IF rest_groups[group_id].owner_id # caller
       THEN /\ Reply("remove_member", group_id, 403, caller, user_id, <<>>)
            /\ UNCHANGED rest_members
       ELSE IF user_id = rest_groups[group_id].owner_id
       THEN /\ Reply("remove_member", group_id, 400, caller, user_id, <<>>)
            /\ UNCHANGED rest_members
       ELSE IF ~IsMember(group_id, user_id)
       THEN /\ Reply("remove_member", group_id, 404, caller, user_id, <<>>)
            /\ UNCHANGED rest_members
       ELSE /\ rest_members' = rest_members \ {<<group_id, user_id>>}
            /\ Reply("remove_member", group_id, 200, caller, user_id, <<>>)
    /\ UNCHANGED <<rest_groups, rest_entries, nonRestVars>>

\* PUT /api/groups/{group_id}/owner
rest_transfer_ownership(group_id, caller, new_owner_id) ==
    /\ IF ~GroupExists(group_id)
       THEN /\ Reply("transfer_ownership", group_id, 404, caller, new_owner_id, <<>>)
            /\ UNCHANGED rest_groups
       ELSE IF rest_groups[group_id].owner_id # caller
       THEN /\ Reply("transfer_ownership", group_id, 403, caller, new_owner_id, <<>>)
            /\ UNCHANGED rest_groups
       ELSE IF new_owner_id = caller
       THEN /\ Reply("transfer_ownership", group_id, 400, caller, new_owner_id, <<>>)
            /\ UNCHANGED rest_groups
       ELSE IF ~IsMember(group_id, new_owner_id)
       THEN /\ Reply("transfer_ownership", group_id, 400, caller, new_owner_id, <<>>)
            /\ UNCHANGED rest_groups
       ELSE IF new_owner_id \notin RestUsers
       THEN /\ Reply("transfer_ownership", group_id, 404, caller, new_owner_id, <<>>)
            /\ UNCHANGED rest_groups
       ELSE /\ rest_groups' = [rest_groups EXCEPT ![group_id].owner_id = new_owner_id]
            /\ Reply("transfer_ownership", group_id, 200, caller, new_owner_id, <<>>)
    /\ UNCHANGED <<rest_members, rest_entries, nonRestVars>>

\* The access checks shared by get_entries, get_streak and get_history:
\* the status they end with, 200 when the read goes ahead
ReadGate(group_id, user_id, caller) ==
    IF ~GroupExists(group_id) THEN 404
    ELSE IF ~IsMember(group_id, caller) THEN 403
    ELSE IF user_id = NoUser THEN 200
    ELSE IF ~verify_group_owner(group_id, caller) THEN 403
    ELSE IF ~IsMember(group_id, user_id) THEN 404
    ELSE 200

\* target_user_id of the three read handlers
TargetUser(user_id, caller) == IF user_id # NoUser THEN user_id ELSE caller

\* GET /api/entries
rest_get_entries(group_id, entry_date, user_id, caller) ==
    LET gate == ReadGate(group_id, user_id, caller)
        target == TargetUser(user_id, caller)
        rows == {e \in rest_entries : e.group_id = group_id /\ e.user_id = target}
    IN
    /\ IF gate # 200
       THEN Reply("get_entries", group_id, gate, caller, user_id, {})
       ELSE IF entry_date # NoDate /\ entry_date > today
       THEN Reply("get_entries", group_id, 400, caller, user_id, {})
       ELSE Reply("get_entries", group_id, 200, caller, user_id,
                  IF entry_date # NoDate
                  THEN {e \in rows : e.date = entry_date}
                  ELSE rows)
    /\ UNCHANGED <<rest_groups, rest_members, rest_entries, nonRestVars>>

\* POST /api/entries
rest_create_or_update_entry(caller, group_id, section, content, date) ==
    LET entry_date == IF date # NoDate THEN date ELSE today
        existing == {e \in rest_entries :
                        /\ e.user_id = caller
                        /\ e.group_id = group_id
                        /\ e.section = section
                        /\ e.date = entry_date}
        row == [user_id |-> caller, group_id |-> group_id, section |-> section,
                content |-> content, date |-> entry_date]
    IN
    /\ IF ~GroupExists(group_id)
       THEN /\ Reply("create_or_update_entry", group_id, 404, caller, NoUser, {})
            /\ UNCHANGED rest_entries
       ELSE IF ~IsMember(group_id, caller)
       THEN /\ Reply("create_or_update_entry", group_id, 403, caller, NoUser, {})
            /\ UNCHANGED rest_entries
       ELSE IF entry_date > today
       THEN /\ Reply("create_or_update_entry", group_id, 400, caller, NoUser, {})
            /\ UNCHANGED rest_entries
       ELSE /\ rest_entries' = (rest_entries \ existing) \cup {row}
            /\ Reply("create_or_update_entry", group_id, 200, caller, NoUser, {row})
    /\ UNCHANGED <<rest_groups, rest_members, nonRestVars>>

\* ---------------------------------------------- GET /api/analytics/streak
\* the grouped query: dates on which the user has all 3 sections in the group
CompleteDates(u, g) ==
    LET rows == {e \in rest_entries : e.user_id = u /\ e.group_id = g} IN
    {d \in {e.date : e \in rows} :
        Cardinality({e.section : e \in {r \in rows : r.date = d}}) = 3}

\* sorted(..., reverse=True)
RECURSIVE SortedDesc(_)
SortedDesc(S) ==
    IF S = {} THEN <<>>
    ELSE LET m == CHOOSE x \in S : \A y \in S : y <= x
         IN <<m>> \o SortedDesc(S \ {m})

\* the loop `for d in complete_dates' of get_streak, from position i on
RECURSIVE StreakLoop(_, _, _, _)
StreakLoop(complete_dates, i, streak_so_far, check_date) ==
    IF i > Len(complete_dates) THEN streak_so_far
    ELSE LET d == complete_dates[i] IN
         IF d = check_date
         THEN StreakLoop(complete_dates, i + 1, streak_so_far + 1, check_date - 1)
         ELSE IF d = check_date - 1
         THEN StreakLoop(complete_dates, i + 1, streak_so_far + 1, d - 1)
         ELSE streak_so_far

\* StreakResponse(streak, last_complete_date) for the target user
StreakResponse(u, g) ==
    LET complete_dates == SortedDesc(CompleteDates(u, g)) IN
    IF complete_dates = <<>>
    THEN [streak |-> 0, last_complete_date |-> NoDate]
    ELSE [streak |-> StreakLoop(complete_dates, 1, 0, today),
          last_complete_date |-> complete_dates[1]]

rest_get_streak(group_id, user_id, caller) ==
    LET gate == ReadGate(group_id, user_id, caller) IN
    /\ IF gate # 200
       THEN Reply("get_streak", group_id, gate, caller, user_id, <<>>)
       ELSE Reply("get_streak", group_id, 200, caller, user_id,
                  StreakResponse(TargetUser(user_id, caller), group_id))
    /\ UNCHANGED <<rest_groups, rest_members, rest_entries, nonRestVars>>

\* --------------------------------------------- GET /api/analytics/history
HistoryDays(u, g, days) ==
    LET start_date == today - days
        entries == {e \in rest_entries :
                       e.user_id = u /\ e.group_id = g /\ e.date >= start_date}
    IN {[date |-> today - i,
         completed_sections |-> {e.section : e \in {r \in entries : r.date = today - i}},
         is_complete |->
             Cardinality({e.section : e \in {r \in entries : r.date = today - i}}) = 3]
        : i \in 0..days}

rest_get_history(group_id, days, user_id, caller) ==
    LET gate == ReadGate(group_id, user_id, caller) IN
    /\ IF days < 1 \/ days > MAX_HISTORY_DAYS
       THEN Reply("get_history", group_id, 400, caller, user_id, {})
       ELSE IF gate # 200
       THEN Reply("get_history", group_id, gate, caller, user_id, {})
       ELSE Reply("get_history", group_id, 200, caller, user_id,
                  HistoryDays(TargetUser(user_id, caller), group_id, days))
    /\ UNCHANGED <<rest_groups, rest_members, rest_entries, nonRestVars>>

\* ------------------------------------- concurrent Mutation.create_entry
\* A request runs create_entry in its own session: first the checks (reads
\* of the committed table), later db.add + db.commit.  Other requests may
\* commit in between.  The resolver maps ValueError to ERR_VALIDATION; any
\* other exception leaves session_scope and is formatted as ERR_GRAPHQL.
gql_create_entry_begin(p, u, g, s, c, entry_date) ==
    LET edate == IF entry_date # NoDate THEN entry_date ELSE today
        chk == create_entry_check(u, g, s, c, edate)
    IN
    /\ race_pc[p] = "idle"
    /\ IF chk # "pass"
       THEN /\ race_reply' = [race_reply EXCEPT ![p] = "ERR_VALIDATION"]
            /\ UNCHANGED <<race_pc, race_args>>
       ELSE /\ race_pc' = [race_pc EXCEPT ![p] = "checked"]
            /\ race_args' = [race_args EXCEPT ![p] = <<NewEntry(u, g, s, c, edate)>>]
            /\ race_reply' = [race_reply EXCEPT ![p] = "pending"]
    /\ UNCHANGED <<entryVars, restVars, groupVars, adminVars>>

gql_create_entry_commit(p) ==
    LET rows == Append(section_entries, race_args[p][1]) IN
    /\ race_pc[p] = "checked"
    /\ Len(section_entries) < MaxRows
    /\ race_pc' = [race_pc EXCEPT ![p] = "idle"]
    /\ race_args' = [race_args EXCEPT ![p] = <<>>]
    /\ IF uq_active_daily_section_entry(rows)
       THEN /\ section_entries' = rows
            /\ race_reply' = [race_reply EXCEPT ![p] = "ok"]
       ELSE /\ section_entries' = section_entries
            /\ race_reply' = [race_reply EXCEPT ![p] = "ERR_GRAPHQL"]
    /\ UNCHANGED <<today, dialect, result, restVars, groupVars, adminVars>>

\* ====================================== services/group.py through GraphQL
\* info.context user = None: no authenticated principal
NoCaller == 0
\* `if name:' of update_group: not given
NoName == "None"

GqlReply(op, status, caller, group_id, user_id) ==
    gql_result' = [op |-> op, status |-> status, caller |-> caller,
                   group_id |-> group_id, user_id |-> user_id]

\* db.query(Group).filter_by(id=group_id, deleted_at=None).first()
ActiveGroup(group_id) ==
    group_id \in DOMAIN svc_groups /\ svc_groups[group_id].deleted_at = NoDate

\* db.query(User).filter_by(id=user_id, deleted_at=None).first()
ActiveUser(user_id) ==
    user_id \in DOMAIN users /\ users[user_id].deleted_at = NoDate

\* rows of group_members with deleted_at = None for the pair
ActiveMemberships(members, group_id, user_id) ==
    {i \in DOMAIN members :
        /\ members[i].group_id = group_id
        /\ members[i].user_id = user_id
        /\ members[i].deleted_at = NoDate}

\* Index uq_active_group_members: unique on (group_id, user_id), WHERE
\* deleted_at IS NULL on PostgreSQL; other dialects index every row.
uq_active_group_members(rows) ==
    \A i, j \in DOMAIN rows :
        (i # j /\ rows[i].group_id = rows[j].group_id
               /\ rows[i].user_id = rows[j].user_id) =>
            IF dialect = "postgresql"
            THEN rows[i].deleted_at # NoDate \/ rows[j].deleted_at # NoDate
            ELSE FALSE

\* Mutation.createGroup -> services/group.py create_group
createGroup(caller, name) ==
    /\ IF caller = NoCaller
       THEN /\ GqlReply("createGroup", "ERR_UNAUTHORIZED", caller, 0, 0)
            /\ UNCHANGED svc_groups
       ELSE /\ Len(svc_groups) < MaxSvcGroup
            /\ svc_groups' = Append(svc_groups,
                   [name |-> name, admin_id |-> caller, deleted_at |-> NoDate])
            /\ GqlReply("createGroup", "ok", caller, Len(svc_groups) + 1, 0)
    /\ UNCHANGED <<group_members, nonGroupVars>>

\* Mutation.updateGroup -> services/group.py update_group (name only; the
\* resolver never passes admin_id)
updateGroup(caller, id, name) ==
    /\ IF caller = NoCaller
       THEN /\ GqlReply("updateGroup", "ERR_UNAUTHORIZED", caller, id, 0)
            /\ UNCHANGED svc_groups
       ELSE IF ~ActiveGroup(id)
       THEN /\ GqlReply("updateGroup", "404: Group not found", caller, id, 0)
            /\ UNCHANGED svc_groups
       ELSE /\ svc_groups' = IF name # NoName
                             THEN [svc_groups EXCEPT ![id].name = name]
                             ELSE svc_groups
            /\ GqlReply("updateGroup", "ok", caller, id, 0)
    /\ UNCHANGED <<group_members, nonGroupVars>>

\* services/group.py add_member: its status and the table it leaves
add_member(group_id, user_id) ==
    LET rows == Append(group_members,
                   [group_id |-> group_id, user_id |-> user_id, deleted_at |-> NoDate])
    IN
    IF ~ActiveGroup(group_id)
    THEN [status |-> "404: Group not found", members |-> group_members]
    ELSE IF ~ActiveUser(user_id)
    THEN [status |-> "404: User not found", members |-> group_members]
    ELSE IF ActiveMemberships(group_members, group_id, user_id) # {}
    THEN [status |-> "409: User already in group", members |-> group_members]
    ELSE IF ~uq_active_group_members(rows)
    THEN [status |-> "IntegrityError", members |-> group_members]
    ELSE [status |-> "ok", members |-> rows]

\* Mutation.addGroupMember
addGroupMember(caller, groupId, userId) ==
    LET r == add_member(groupId, userId) IN
    /\ IF caller = NoCaller
       THEN /\ GqlReply("addGroupMember", "ERR_UNAUTHORIZED", caller, groupId, userId)
            /\ UNCHANGED group_members
       ELSE /\ r.status = "ok" => Len(group_members) < MaxMemberRows
            /\ group_members' = r.members
            /\ GqlReply("addGroupMember", r.status, caller, groupId, userId)
    /\ UNCHANGED <<svc_groups, nonGroupVars>>

\* services/group.py remove_member: its status and the table it leaves
remove_member(group_id, user_id) ==
    LET found == ActiveMemberships(group_members, group_id, user_id) IN
    IF found = {}
    THEN [status |-> "404: Membership not found", members |-> group_members]
    ELSE LET m == CHOOSE i \in found : \A j \in found : i <= j IN
         [status |-> "ok",
          members |-> [group_members EXCEPT ![m].deleted_at = Now]]

\* Mutation.removeGroupMember: every exception becomes success=False
removeGroupMember(caller, groupId, userId, confirm) ==
    LET r == remove_member(groupId, userId) IN
    /\ IF caller = NoCaller
       THEN /\ GqlReply("removeGroupMember", "ERR_UNAUTHORIZED", caller, groupId, userId)
            /\ UNCHANGED group_members
       ELSE IF ~confirm
       THEN /\ GqlReply("removeGroupMember", "Confirmation required.", caller, groupId, userId)
            /\ UNCHANGED group_members
       ELSE /\ group_members' = r.members
            /\ GqlReply("removeGroupMember", r.status, caller, groupId, userId)
    /\ UNCHANGED <<svc_groups, nonGroupVars>>

\* -------------------------------------- GraphQL entry mutations
\* Mutation.create_entry, update_entry and delete_entry take no `info':
\* the request's principal (caller) is not read, and user_id comes from the
\* input.
Mutation_create_entry(caller, u, g, s, c, entry_date) ==
    create_entry(u, g, s, c, entry_date)

Mutation_update_entry(caller, id, c, s) == update_entry(id, c, s)

Mutation_delete_entry(caller, id) == soft_delete_entry(id)

\* Mutation.restoreEntry calls restore_entry(db, id=..., user_id=...), whose
\* keyword is entry_id: the call raises TypeError before the service runs
restoreEntry(caller, id) ==
    /\ result' = [op |-> "restoreEntry",
                  status |-> IF caller = NoCaller THEN "ERR_UNAUTHORIZED"
                             ELSE "TypeError",
                  value |-> 0]
    /\ UNCHANGED <<today, dialect, section_entries, nonEntryVars>>

\* services/group.py soft_delete_group (a service call, no resolver)
soft_delete_group(group_id) ==
    /\ IF ~ActiveGroup(group_id)
       THEN /\ GqlReply("soft_delete_group", "404: Group not found", NoCaller, group_id, 0)
            /\ UNCHANGED svc_groups
       ELSE /\ svc_groups' = [svc_groups EXCEPT ![group_id].deleted_at = Now]
            /\ GqlReply("soft_delete_group", "ok", NoCaller, group_id, 0)
    /\ UNCHANGED <<group_members, nonGroupVars>>

\* ================================================ services/role.py
\* the `Verify Super Admin' lines of promote_to_group_admin, demote_to_user
\* and soft_delete_user
IsSuperAdmin(super_admin_id) ==
    ActiveUser(super_admin_id) /\ users[super_admin_id].role = "SUPER_ADMIN"

\* services/role.py soft_delete_user: its status and the table it leaves
soft_delete_user(super_admin_id, user_id) ==
    IF ~IsSuperAdmin(super_admin_id)
    THEN [status |-> "403: Only Super Admin can delete users.", users |-> users]
    ELSE IF ~ActiveUser(user_id)
    THEN [status |-> "404: User not found.", users |-> users]
    ELSE [status |-> "ok", users |-> [users EXCEPT ![user_id].deleted_at = Now]]

\* Mutation.softDeleteUser: every exception becomes success=False
softDeleteUser(caller, userId, confirm) ==
    LET r == soft_delete_user(caller, userId) IN
    /\ IF caller = NoCaller
       THEN /\ GqlReply("softDeleteUser", "User must be authenticated.", caller, 0, userId)
            /\ UNCHANGED users
       ELSE IF ~confirm
       THEN /\ GqlReply("softDeleteUser", "Confirmation required.", caller, 0, userId)
            /\ UNCHANGED users
       ELSE /\ users' = r.users
            /\ GqlReply("softDeleteUser", r.status, caller, 0, userId)
    /\ UNCHANGED <<svc_groups, group_members, audit_logs, entryVars, raceVars, restVars>>

\* ------------------------------------------------- services/role.py
\* (the roles SUPER_ADMIN, GROUP_ADMIN and USER are rows of table roles)
promote_to_group_admin_KeepsOldAdmin(super_admin_id, user_id, group_id) ==
    IF ~IsSuperAdmin(super_admin_id)
    THEN [status |-> "403: Only Super Admin can promote users.",
          users |-> users, groups |-> svc_groups]
    ELSE IF ~ActiveUser(user_id) \/ ~ActiveGroup(group_id)
    THEN [status |-> "404: User or group not found.",
          users |-> users, groups |-> svc_groups]
    ELSE [status |-> "ok",
          users |-> [users EXCEPT ![user_id].role = "GROUP_ADMIN"],
          groups |-> [svc_groups EXCEPT ![group_id].admin_id = user_id]]

\* promote_to_group_admin: the existing admin, looked up without a
\* deleted_at filter, gets role USER first; then the user gets GROUP_ADMIN
promote_to_group_admin(super_admin_id, user_id, group_id) ==
    IF ~IsSuperAdmin(super_admin_id)
    THEN [status |-> "403: Only Super Admin can promote users.",
          users |-> users, groups |-> svc_groups]
    ELSE IF ~ActiveUser(user_id) \/ ~ActiveGroup(group_id)
    THEN [status |-> "404: User or group not found.",
          users |-> users, groups |-> svc_groups]
    ELSE LET existing_admin == svc_groups[group_id].admin_id
             demoted == IF existing_admin \in DOMAIN users
                        THEN [users EXCEPT ![existing_admin].role = "USER"]
                        ELSE users
         IN
         [status |-> "ok",
          users |-> [demoted EXCEPT ![user_id].role = "GROUP_ADMIN"],
          groups |-> [svc_groups EXCEPT ![group_id].admin_id = user_id]]

\* demote_to_user: the group is left with admin_id = None
demote_to_user(super_admin_id, user_id, group_id) ==
    IF ~IsSuperAdmin(super_admin_id)
    THEN [status |-> "403: Only Super Admin can demote users.",
          users |-> users, groups |-> svc_groups]
    ELSE IF ~ActiveUser(user_id) \/ ~ActiveGroup(group_id)
    THEN [status |-> "404: User or group not found.",
          users |-> users, groups |-> svc_groups]
    ELSE IF svc_groups[group_id].admin_id # user_id
    THEN [status |-> "400: User is not admin of this group.",
          users |-> users, groups |-> svc_groups]
    ELSE [status |-> "ok",
          users |-> [users EXCEPT ![user_id].role = "USER"],
          groups |-> [svc_groups EXCEPT ![group_id].admin_id = NoCaller]]

\* Mutation.promoteToGroupAdmin: every exception becomes success=False
promoteToGroupAdmin(caller, userId, groupId) ==
    LET r == promote_to_group_admin(caller, userId, groupId) IN
    /\ IF caller = NoCaller
       THEN /\ GqlReply("promoteToGroupAdmin", "User must be authenticated.",
                        caller, groupId, userId)
            /\ UNCHANGED <<users, svc_groups>>
       ELSE /\ users' = r.users
            /\ svc_groups' = r.groups
            /\ GqlReply("promoteToGroupAdmin", r.status, caller, groupId, userId)
    /\ UNCHANGED <<group_members, audit_logs, entryVars, raceVars, restVars>>

\* Mutation.demoteToUser
demoteToUser(caller, userId, groupId) ==
    LET r == demote_to_user(caller, userId, groupId) IN
    /\ IF caller = NoCaller
       THEN /\ GqlReply("demoteToUser", "User must be authenticated.",
                        caller, groupId, userId)
            /\ UNCHANGED <<users, svc_groups>>
       ELSE /\ users' = r.users
            /\ svc_groups' = r.groups
            /\ GqlReply("demoteToUser", r.status, caller, groupId, userId)
    /\ UNCHANGED <<group_members, audit_logs, entryVars, raceVars, restVars>>

\* ------------------------------------------- moderation and audit log
\* an AuditLog row (the metadata keyword of the constructor is not the
\* mapped attribute `meta', so no reason is stored)
AuditLog(user_id, action, resource_type, resource_id) ==
    [user_id |-> user_id, action |-> action,
     resource_type |-> resource_type, resource_id |-> resource_id]

\* services/analytics.py log_audit_event
log_audit_event(user_id, action, resource_type, resource_id) ==
    /\ audit_logs' = Append(audit_logs,
                            AuditLog(user_id, action, resource_type, resource_id))
    /\ UNCHANGED <<users, entryVars, raceVars, restVars, groupVars>>

\* services/analytics.py flag_entry: the flag is committed first, the audit
\* row in a second transaction; audit_commit = FALSE is a database error
\* raised by that second db.commit()
flag_entry(entry_id, reason, flagged_by, audit_commit) ==
    LET flagged == [section_entries EXCEPT ![entry_id].is_flagged = TRUE,
                                           ![entry_id].flagged_reason = reason]
    IN
    IF ~IsActiveEntry(entry_id)
    THEN [status |-> "ValueError: Entry not found",
          entries |-> section_entries, audit |-> audit_logs]
    ELSE IF ~audit_commit
    THEN [status |-> "OperationalError", entries |-> flagged, audit |-> audit_logs]
    ELSE [status |-> "ok", entries |-> flagged,
          audit |-> Append(audit_logs,
                           AuditLog(flagged_by, "flag_entry", "entry", entry_id))]

\* services/analytics.py unflag_entry, the same two commits
unflag_entry(entry_id, unflagged_by, audit_commit) ==
    LET unflagged == [section_entries EXCEPT ![entry_id].is_flagged = FALSE,
                                             ![entry_id].flagged_reason = NoReason]
    IN
    IF ~IsActiveEntry(entry_id)
    THEN [status |-> "ValueError: Entry not found",
          entries |-> section_entries, audit |-> audit_logs]
    ELSE IF ~audit_commit
    THEN [status |-> "OperationalError", entries |-> unflagged, audit |-> audit_logs]
    ELSE [status |-> "ok", entries |-> unflagged,
          audit |-> Append(audit_logs,
                           AuditLog(unflagged_by, "unflag_entry", "entry", entry_id))]

\* the role test of the moderation resolvers, on the context user
ContextRole(caller) ==
    IF caller \in DOMAIN users THEN users[caller].role ELSE "None"

\* Mutation.flagEntry
flagEntry(caller, entryId, reason, audit_commit) ==
    LET r == flag_entry(entryId, reason, caller, audit_commit) IN
    /\ IF caller = NoCaller
       THEN /\ GqlReply("flagEntry", "ERR_UNAUTHORIZED", caller, 0, 0)
            /\ UNCHANGED <<section_entries, audit_logs>>
       ELSE IF ContextRole(caller) # "SUPER_ADMIN"
       THEN /\ GqlReply("flagEntry", "ERR_FORBIDDEN", caller, 0, 0)
            /\ UNCHANGED <<section_entries, audit_logs>>
       ELSE /\ section_entries' = r.entries
            /\ audit_logs' = r.audit
            /\ GqlReply("flagEntry", r.status, caller, 0, 0)
    /\ UNCHANGED <<today, dialect, result, raceVars, restVars,
                   svc_groups, group_members, users>>

\* Mutation.unflagEntry
unflagEntry(caller, entryId, audit_commit) ==
    LET r == unflag_entry(entryId, caller, audit_commit) IN
    /\ IF caller = NoCaller
       THEN /\ GqlReply("unflagEntry", "ERR_UNAUTHORIZED", caller, 0, 0)
            /\ UNCHANGED <<section_entries, audit_logs>>
       ELSE IF ContextRole(caller) # "SUPER_ADMIN"
       THEN /\ GqlReply("unflagEntry", "ERR_FORBIDDEN", caller, 0, 0)
            /\ UNCHANGED <<section_entries, audit_logs>>
       ELSE /\ section_entries' = r.entries
            /\ audit_logs' = r.audit
            /\ GqlReply("unflagEntry", r.status, caller, 0, 0)
    /\ UNCHANGED <<today, dialect, result, raceVars, restVars,
                   svc_groups, group_members, users>>

\* --------------------------------------------------- services/gdpr.py
\* the rows of a table that do not belong to user_id (bulk DELETE ... WHERE
\* user_id = :id); rows are addressed by position, so the rows that follow
\* a deleted one move up
WithoutUser(rows, user_id) ==
    SelectSeq(rows, LAMBDA r : r.user_id # user_id)

\* delete_user_account: DELETE of the user's entries, memberships and audit
\* logs, then db.delete(user), which also nulls Group.admin_id through the
\* admin_groups backref
delete_user_account(user_id) ==
    IF ~ActiveUser(user_id)
    THEN [status |-> "ValueError: User not found", users |-> users,
          entries |-> section_entries, members |-> group_members,
          audit |-> audit_logs, groups |-> svc_groups]
    ELSE [status |-> "ok",
          users |-> [u \in DOMAIN users \ {user_id} |-> users[u]],
          entries |-> WithoutUser(section_entries, user_id),
          members |-> WithoutUser(group_members, user_id),
          audit |-> WithoutUser(audit_logs, user_id),
          groups |-> [g \in DOMAIN svc_groups |->
                        IF svc_groups[g].admin_id = user_id
                        THEN [svc_groups[g] EXCEPT !.admin_id = NoCaller]
                        ELSE svc_groups[g]]]

\* Mutation.deleteMyAccount: every exception becomes success=False
deleteMyAccount(caller, confirm) ==
    LET r == delete_user_account(caller) IN
    /\ IF caller = NoCaller
       THEN /\ GqlReply("deleteMyAccount", "User must be authenticated.", caller, 0, caller)
            /\ UNCHANGED <<users, section_entries, group_members, audit_logs, svc_groups>>
       ELSE IF ~confirm
       THEN /\ GqlReply("deleteMyAccount", "Confirmation required.", caller, 0, caller)
            /\ UNCHANGED <<users, section_entries, group_members, audit_logs, svc_groups>>
       ELSE /\ users' = r.users
            /\ section_entries' = r.entries
            /\ group_members' = r.members
            /\ audit_logs' = r.audit
            /\ svc_groups' = r.groups
            /\ GqlReply("deleteMyAccount", r.status, caller, 0, caller)
    /\ UNCHANGED <<today, dialect, result, raceVars, restVars>>

\* ------------------------------------- services/auth.py, analytics.py
\* a service call's answer that carries data
GqlData(op, status, user_id, group_id, data) ==
    gql_result' = [op |-> op, status |-> status, caller |-> NoCaller,
                   group_id |-> group_id, user_id |-> user_id, data |-> data]

\* get_user_by_email: the row with this email, soft-deleted or not
get_user_by_email(user_id) == user_id \in DOMAIN users

\* services/auth.py authenticate_user for the email of user_id (the update
\* of last_login is not carried)
authenticate_user(user_id, password_ok) ==
    /\ GqlData("authenticate_user",
               IF get_user_by_email(user_id) /\ password_ok
               THEN "ok" ELSE "ValueError: Invalid credentials",
               user_id, 0, <<>>)
    /\ UNCHANGED <<svc_groups, group_members, nonGroupVars>>

\* the default period of the analytics queries: the last 30 days
ANALYTICS_DAYS == 30

InPeriod(e) ==
    /\ e.deleted_at = NoDate
    /\ e.entry_date >= today - ANALYTICS_DAYS
    /\ e.entry_date <= today

\* services/analytics.py get_group_analytics: the counts it returns
group_analytics(group_id) ==
    LET counted == {i \in DOMAIN section_entries :
                      /\ section_entries[i].group_id = group_id
                      /\ InPeriod(section_entries[i])}
    IN
    [member_count |-> Cardinality({i \in DOMAIN group_members :
                          /\ group_members[i].group_id = group_id
                          /\ group_members[i].deleted_at = NoDate}),
     total_entries |-> Cardinality(counted),
     active_users |-> Cardinality({section_entries[i].user_id : i \in counted})]

get_group_analytics(group_id) ==
    /\ GqlData("get_group_analytics", "ok", 0, group_id, group_analytics(group_id))
    /\ UNCHANGED <<svc_groups, group_members, nonGroupVars>>

\* services/analytics.py get_global_analytics: the counts it returns
global_analytics ==
    LET counted == {i \in DOMAIN section_entries : InPeriod(section_entries[i])}
    IN
    [total_users |-> Cardinality({u \in DOMAIN users : users[u].deleted_at = NoDate}),
     total_entries |-> Cardinality(counted),
     active_users |-> Cardinality({section_entries[i].user_id : i \in counted})]

get_global_analytics ==
    /\ GqlData("get_global_analytics", "ok", 0, 0, global_analytics)
    /\ UNCHANGED <<svc_groups, group_members, nonGroupVars>>

\* ------------------------------------------ analytics endpoints
\* an endpoint's answer that carries data
AnalyticsReply(op, status, caller, group_id, data) ==
    gql_result' = [op |-> op, status |-> status, caller |-> caller,
                   group_id |-> group_id, user_id |-> 0, data |-> data]

MayViewGroupAnalytics_AnyMembership(caller, group_id) ==
    \/ svc_groups[group_id].admin_id = caller
    \/ \E i \in DOMAIN group_members :
          /\ group_members[i].group_id = group_id
          /\ group_members[i].user_id = caller

\* is_admin or is_member of both group-analytics endpoints
MayViewGroupAnalytics(caller, group_id) ==
    \/ svc_groups[group_id].admin_id = caller
    \/ ActiveMemberships(group_members, group_id, caller) # {}

\* what both group-analytics endpoints answer an authenticated caller
group_analytics_gate(caller, group_id) ==
    IF ~ActiveGroup(group_id) THEN "ERR_NOT_FOUND"
    ELSE IF ~MayViewGroupAnalytics(caller, group_id) THEN "ERR_FORBIDDEN"
    ELSE "ok"

\* Query.groupAnalytics
groupAnalytics(caller, groupId) ==
    LET gate == group_analytics_gate(caller, groupId) IN
    /\ IF caller = NoCaller
       THEN AnalyticsReply("groupAnalytics", "ERR_UNAUTHORIZED", caller, groupId, <<>>)
       ELSE AnalyticsReply("groupAnalytics", gate, caller, groupId,
                           IF gate = "ok" THEN group_analytics(groupId) ELSE <<>>)
    /\ UNCHANGED <<svc_groups, group_members, nonGroupVars>>

\* GET /api/v1/analytics/group/{group_id}; get_current_user answers 401
\* without a principal
get_group_analytics_endpoint(caller, group_id) ==
    LET gate == group_analytics_gate(caller, group_id) IN
    /\ IF caller = NoCaller
       THEN AnalyticsReply("get_group_analytics_endpoint", "401", caller, group_id, <<>>)
       ELSE AnalyticsReply("get_group_analytics_endpoint", gate, caller, group_id,
                           IF gate = "ok" THEN group_analytics(group_id) ELSE <<>>)
    /\ UNCHANGED <<svc_groups, group_members, nonGroupVars>>

\* request header test-user-role absent
NoHeader == "None"

\* the refusal of a caller who is not SUPER_ADMIN: the unauthorized_access
\* audit event is written when its commit succeeds, and the exception of a
\* failed write is swallowed
LogUnauthorizedAccess(user_id, resource_type, audit_commit) ==
    audit_logs' = IF audit_commit
                  THEN Append(audit_logs,
                              AuditLog(user_id, "unauthorized_access", resource_type, 0))
                  ELSE audit_logs

\* Query.globalAnalytics: without a context user, a request that carries
\* the header test-user-role is given a dummy user with that role
globalAnalytics(caller, role_header, audit_commit) ==
    LET authenticated == caller # NoCaller \/ role_header # NoHeader
        role_name == IF caller # NoCaller THEN ContextRole(caller) ELSE role_header
    IN
    /\ IF ~authenticated
       THEN /\ AnalyticsReply("globalAnalytics", "ERR_UNAUTHORIZED", caller, 0, <<>>)
            /\ UNCHANGED audit_logs
       ELSE IF role_name # "SUPER_ADMIN"
       THEN /\ AnalyticsReply("globalAnalytics", "ERR_FORBIDDEN", caller, 0, <<>>)
            /\ LogUnauthorizedAccess(caller, "global_analytics", audit_commit)
       ELSE /\ AnalyticsReply("globalAnalytics", "ok", caller, 0, global_analytics)
            /\ UNCHANGED audit_logs
    /\ UNCHANGED <<users, svc_groups, group_members, entryVars, raceVars, restVars>>

\* Query.auditLogs
auditLogs(caller, audit_commit) ==
    /\ IF caller = NoCaller
       THEN /\ AnalyticsReply("auditLogs", "ERR_UNAUTHORIZED", caller, 0, <<>>)
            /\ UNCHANGED audit_logs
       ELSE IF ContextRole(caller) # "SUPER_ADMIN"
       THEN /\ AnalyticsReply("auditLogs", "ERR_FORBIDDEN", caller, 0, <<>>)
            /\ LogUnauthorizedAccess(caller, "audit_logs", audit_commit)
       ELSE /\ AnalyticsReply("auditLogs", "ok", caller, 0, audit_logs)
            /\ UNCHANGED audit_logs
    /\ UNCHANGED <<users, svc_groups, group_members, entryVars, raceVars, restVars>>

\* GET /api/v1/analytics/global
get_global_analytics_endpoint(caller) ==
    /\ IF caller = NoCaller
       THEN AnalyticsReply("get_global_analytics_endpoint", "401", caller, 0, <<>>)
       ELSE IF ContextRole(caller) # "SUPER_ADMIN"
       THEN AnalyticsReply("get_global_analytics_endpoint", "ERR_FORBIDDEN", caller, 0, <<>>)
       ELSE AnalyticsReply("get_global_analytics_endpoint", "ok", caller, 0,
                           global_analytics)
    /\ UNCHANGED <<svc_groups, group_members, nonGroupVars>>

\* GET /api/v1/audit/logs
get_audit_logs_endpoint(caller, audit_commit) ==
    /\ IF caller = NoCaller
       THEN /\ AnalyticsReply("get_audit_logs_endpoint", "401", caller, 0, <<>>)
            /\ UNCHANGED audit_logs
       ELSE IF ContextRole(caller) # "SUPER_ADMIN"
       THEN /\ AnalyticsReply("get_audit_logs_endpoint", "ERR_SUPERADMIN_REQUIRED",
                              caller, 0, <<>>)
            /\ LogUnauthorizedAccess(caller, "audit_logs", audit_commit)
       ELSE /\ AnalyticsReply("get_audit_logs_endpoint", "ok", caller, 0, audit_logs)
            /\ UNCHANGED audit_logs
    /\ UNCHANGED <<users, svc_groups, group_members, entryVars, raceVars, restVars>>

\* ------------------------------------- api/middleware/rate_limit.py
Threads == 1..MaxProc
Keys == {"gdpr_export:1:-", "gdpr_export:2:-"}
\* api/rest/v1/gdpr.py GDPR_EXPORT_LIMIT
GDPR_EXPORT_LIMIT == 2

rateFrame == <<rest_groups, rest_members, rest_entries, rest_result, authVars,
               entryVars, raceVars, groupVars, adminVars>>

\* time.monotonic() moves on
Advance ==
    /\ mono < MaxTime
    /\ mono' = mono + 1
    /\ UNCHANGED <<STORE, rl_pc, rl_now, rl_key, rl_reply, admitted, rl_calls, rateFrame>>

\* check_rate_limit up to `with _LOCK': now = _now() is read outside the lock
check_rate_limit_now(t, key) ==
    /\ rl_pc[t] = "idle"
    /\ rl_calls < MaxCalls
    /\ rl_calls' = rl_calls + 1
    /\ rl_pc' = [rl_pc EXCEPT ![t] = "waiting"]
    /\ rl_now' = [rl_now EXCEPT ![t] = mono]
    /\ rl_key' = [rl_key EXCEPT ![t] = key]
    /\ UNCHANGED <<mono, STORE, rl_reply, admitted, rateFrame>>

\* a limiter that never drops expired timestamps
Prune_Nothing(q, cutoff) == q

\* while q and q[0] < cutoff: q.popleft()
RECURSIVE Prune(_, _)
Prune(q, cutoff) ==
    IF q # <<>> /\ Head(q) < cutoff THEN Prune(Tail(q), cutoff) ELSE q

\* check_rate_limit inside `with _LOCK', as one step
check_rate_limit_locked(t, limit, window_seconds) ==
    LET now == rl_now[t]
        key == rl_key[t]
        cutoff == now - window_seconds
        q == Prune(STORE[key], cutoff)
        allowed == ~(Len(q) >= limit)
    IN
    /\ rl_pc[t] = "waiting"
    /\ rl_pc' = [rl_pc EXCEPT ![t] = "idle"]
    /\ STORE' = [STORE EXCEPT ![key] = IF allowed THEN Append(q, now) ELSE q]
    /\ admitted' = IF allowed
                   THEN [admitted EXCEPT ![key][now] = admitted[key][now] + 1]
                   ELSE admitted
    /\ rl_reply' = [key |-> key, now |-> now, allowed |-> allowed]
    /\ UNCHANGED <<mono, rl_now, rl_key, rl_calls, rateFrame>>

\* ------------------------------------------ main.py register, password reset
Emails == {"a@x.io", "b@x.io", "c@x.io"}

\* POST /api/auth/register: 400 when the email is taken
register(email) ==
    /\ rest_accounts' = rest_accounts \cup {email}
    /\ fp_response' = [op |-> "register", email |-> email,
                       body |-> IF email \in rest_accounts
                                THEN {<<"detail", "Email already registered">>}
                                ELSE {<<"email", email>>}]
    /\ UNCHANGED <<is_production, email_configured, rest_groups, rest_members,
                   rest_entries, rest_result, entryVars, raceVars, groupVars,
                   adminVars, rateVars>>

generic_message == "If an account exists with this email, a reset link has been sent."

\* the JSON object forgot_password returns, as a set of <<field, value>>;
\* send_ok: send_password_reset_email succeeded; db_ok: the user query did
\* not raise SQLAlchemyError
forgot_password_response(email, send_ok, db_ok) ==
    LET response_data == {<<"message", generic_message>>} IN
    IF ~db_ok THEN {<<"message", generic_message>>}
    ELSE IF email \notin rest_accounts THEN {<<"message", generic_message>>}
    ELSE IF email_configured
    THEN IF send_ok
         THEN response_data \cup {<<"email_sent", "True">>}
         ELSE IF ~is_production
         THEN response_data \cup {<<"reset_token", "token">>,
                                  <<"email_error", "error">>}
         ELSE response_data
    ELSE IF ~is_production
    THEN response_data \cup {<<"reset_token", "token">>,
                             <<"email_configured", "False">>}
    ELSE response_data

\* POST /api/auth/password/forgot of backend/main.py
forgot_password(email, send_ok, db_ok) ==
    /\ fp_response' = [op |-> "forgot_password", email |-> email,
                       body |-> forgot_password_response(email, send_ok, db_ok)]
    /\ UNCHANGED <<rest_accounts, is_production, email_configured, rest_groups,
                   rest_members, rest_entries, rest_result, entryVars, raceVars,
                   groupVars, adminVars, rateVars>>

\* the same route of minimal/backend/main.py
minimal_forgot_password_response(email) ==
    IF email \notin rest_accounts
    THEN {<<"message", "If account exists, a reset link was sent.">>}
    ELSE {<<"message", "If account exists, a reset link was sent.">>,
          <<"reset_token", "token">>}

minimal_forgot_password(email) ==
    /\ fp_response' = [op |-> "minimal_forgot_password", email |-> email,
                       body |-> minimal_forgot_password_response(email)]
    /\ UNCHANGED <<rest_accounts, is_production, email_configured, rest_groups,
                   rest_members, rest_entries, rest_result, entryVars, raceVars,
                   groupVars, adminVars, rateVars>>

\* every table empty, no request answered yet
InitTables ==
    /\ today = 0
    /\ dialect \in {"postgresql", "sqlite"}
    /\ section_entries = <<>>
    /\ result = [op |-> "none", status |-> "none", value |-> 0]
    /\ race_pc = [p \in Procs |-> "idle"]
    /\ race_args = [p \in Procs |-> <<>>]
    /\ race_reply = [p \in Procs |-> "none"]
    /\ rest_groups = <<>>
    /\ rest_members = {}
    /\ rest_entries = {}
    /\ rest_result = [op |-> "none", group_id |-> 0, status |-> 0, caller |-> 0,
                      user_id |-> 0, data |-> <<>>]
    /\ group_members = <<>>
    /\ gql_result = [op |-> "none", status |-> "none", caller |-> 0,
                     group_id |-> 0, user_id |-> 0]
    /\ audit_logs = <<>>
    /\ rest_accounts = {}
    /\ fp_response = [op |-> "none", email |-> "none", body |-> {}]
    /\ mono = 0
    /\ STORE = [k \in Keys |-> <<>>]
    /\ rl_pc = [t \in Threads |-> "idle"]
    /\ rl_now = [t \in Threads |-> 0]
    /\ rl_key = [t \in Threads |-> "none"]
    /\ rl_reply = [key |-> "none", now |-> 0, allowed |-> FALSE]
    /\ admitted = [k \in Keys |-> [x \in 0..MaxTime |-> 0]]
    /\ rl_calls = 0

\* every table empty but users: a super admin (user 1) and a plain user
InitStore ==
    /\ InitTables
    /\ svc_groups = <<>>
    /\ users = [u \in Users |->
                   [role |-> IF u = 1 THEN "SUPER_ADMIN" ELSE "USER",
                    deleted_at |-> NoDate]]

\* the environment's defaults: RENDER and RESEND_API_KEY unset
Init ==
    /\ InitStore
    /\ is_production = FALSE
    /\ email_configured = FALSE

\* password reset under every environment
InitReset ==
    /\ InitStore
    /\ dialect = "sqlite"
    /\ is_production \in BOOLEAN
    /\ email_configured \in BOOLEAN

\* the REST application keeps its own database; the entry service's dialect
\* plays no part in it
InitRest == Init /\ dialect = "sqlite"

\* Entry service, sequential callers, one group
NextEntry ==
    \/ \E u \in Users, s \in SectionType, c \in RawContents,
          d \in Days \cup {NoDate} : create_entry(u, 1, s, c, d)
    \/ \E id \in 1..MaxRows, c \in RawContents \cup {NoContent},
          s \in SectionType \cup {NoSection} : update_entry(id, c, s)
    \/ \E id \in 1..MaxRows : soft_delete_entry(id)
    \/ \E id \in 1..MaxRows, u \in Users : restore_entry(id, u)
    \/ Tick

SpecEntry == Init /\ [][NextEntry]_vars

\* Streak queries over entries of several users and groups
NextStreak ==
    \/ \E u \in Users, g \in Groups, s \in {"Health", "Hela"},
          d \in Days \cup {NoDate} : create_entry(u, g, s, <<"a">>, d)
    \/ \E id \in 1..MaxRows : soft_delete_entry(id)
    \/ \E id \in 1..MaxRows, u \in Users : restore_entry(id, u)
    \/ \E u \in Users, g \in Groups \cup {NoGroup} : streak(u, g)
    \/ Tick

SpecStreak == Init /\ [][NextStreak]_vars

\* Concurrent create requests of one user in one group, on the same day
NextRace ==
    \/ \E p \in Procs, s \in SectionType, c \in RawContents :
          gql_create_entry_begin(p, 1, 1, s, c, NoDate)
    \/ \E p \in Procs : gql_create_entry_commit(p)
    \/ \E id \in 1..MaxRows : soft_delete_entry(id)

SpecRace == Init /\ [][NextRace]_vars

\* REST: groups, memberships and reads; entries of section health, today
NextRest ==
    \/ \E u \in RestUsers, n \in {"A"} : rest_create_group(u, n)
    \/ \E g \in 1..MaxRestGroup, u \in RestUsers, n \in {"A", "B"} :
          rest_update_group(g, u, n)
    \/ \E g \in 1..MaxRestGroup, u \in RestUsers,
          m \in RestUsers \cup {NoUser} : rest_add_member(g, u, m)
    \/ \E g \in 1..MaxRestGroup, u \in RestUsers, m \in RestUsers :
          rest_remove_member(g, m, u)
    \/ \E g \in 1..MaxRestGroup, u \in RestUsers,
          m \in 1..(MaxRestUser + 1) : rest_transfer_ownership(g, u, m)
    \/ \E g \in 1..MaxRestGroup, u \in RestUsers :
          rest_create_or_update_entry(u, g, "health", <<"a">>, NoDate)
    \/ \E g \in 1..MaxRestGroup, u \in RestUsers,
          m \in RestUsers \cup {NoUser}, d \in {NoDate, 0, 1} :
          rest_get_entries(g, d, m, u)
    \/ \E g \in 1..MaxRestGroup, u \in RestUsers,
          m \in RestUsers \cup {NoUser} : rest_get_streak(g, m, u)
    \/ \E g \in 1..MaxRestGroup, u \in RestUsers,
          m \in RestUsers \cup {NoUser}, days \in {0, 1, MAX_HISTORY_DAYS + 1} :
          rest_get_history(g, days, m, u)

SpecRest == InitRest /\ [][NextRest]_vars

\* REST: one user's entries over several days and the all-sections streak
NextRestStreak ==
    \/ rest_create_group(1, "A")
    \/ \E s \in VALID_SECTIONS, d \in Days \cup {NoDate} :
          rest_create_or_update_entry(1, 1, s, <<"a">>, d)
    \/ rest_get_streak(1, NoUser, 1)
    \/ Tick

SpecRestStreak == InitRest /\ [][NextRestStreak]_vars

\* GraphQL group mutations over the group service
NextGroup ==
    \/ \E u \in Users \cup {NoCaller} : createGroup(u, "A")
    \/ \E u \in Users \cup {NoCaller}, g \in 1..(MaxSvcGroup + 1), n \in {"B", NoName} :
          updateGroup(u, g, n)
    \/ \E u \in Users \cup {NoCaller}, g \in 1..(MaxSvcGroup + 1), m \in 1..(MaxUser + 1) :
          addGroupMember(u, g, m)
    \/ \E u \in Users \cup {NoCaller}, g \in 1..(MaxSvcGroup + 1), m \in Users,
          confirm \in BOOLEAN : removeGroupMember(u, g, m, confirm)

SpecGroup == Init /\ [][NextGroup]_vars

\* memberships of the group service: groups and users come and go
NextMember ==
    \/ \E u \in Users : createGroup(u, "A")
    \/ \E u \in Users, g \in 1..MaxSvcGroup, m \in 1..(MaxUser + 1) :
          addGroupMember(u, g, m)
    \/ \E u \in Users, g \in 1..MaxSvcGroup, m \in Users :
          removeGroupMember(u, g, m, TRUE)
    \/ \E g \in 1..MaxSvcGroup : soft_delete_group(g)
    \/ \E u \in Users, m \in Users : softDeleteUser(u, m, TRUE)

SpecMember == Init /\ [][NextMember]_vars

\* moderation by flagEntry / unflagEntry over entries of one group
NextModeration ==
    \/ \E u \in Users, s \in {"Health", "Hela"} :
          create_entry(u, 1, s, <<"a">>, NoDate)
    \/ \E id \in 1..MaxRows : soft_delete_entry(id)
    \/ \E caller \in Users \cup {NoCaller}, id \in 1..(MaxRows + 1),
          audit_commit \in BOOLEAN :
          /\ Len(audit_logs) < MaxAudit
          /\ flagEntry(caller, id, "spam", audit_commit)
    \/ \E caller \in Users \cup {NoCaller}, id \in 1..(MaxRows + 1),
          audit_commit \in BOOLEAN :
          /\ Len(audit_logs) < MaxAudit
          /\ unflagEntry(caller, id, audit_commit)

SpecModeration == Init /\ [][NextModeration]_vars

\* account deletion next to the data it touches: groups, memberships,
\* entries and audit rows
NextGdpr ==
    \/ \E u \in DOMAIN users : createGroup(u, "A")
    \/ \E u \in DOMAIN users : addGroupMember(u, 1, u)
    \/ \E u \in DOMAIN users : create_entry(u, 1, "Health", <<"a">>, NoDate)
    \/ \E caller \in DOMAIN users, id \in 1..MaxRows :
          /\ Len(audit_logs) < MaxAudit
          /\ flagEntry(caller, id, "spam", TRUE)
    \/ \E u \in DOMAIN users :
          /\ Len(audit_logs) < MaxAudit
          /\ log_audit_event(u, "unauthorized_access", "audit_logs", 0)
    \/ \E u \in DOMAIN users, m \in Users : softDeleteUser(u, m, TRUE)
    \/ \E caller \in (DOMAIN users) \cup {NoCaller}, confirm \in BOOLEAN :
          deleteMyAccount(caller, confirm)

SpecGdpr == Init /\ [][NextGdpr]_vars

\* soft delete and restore of two users' entries, next to the queries that
\* skip soft-deleted rows
NextRestore ==
    \/ \E u \in Users : create_entry(u, 1, "Health", <<"a">>, NoDate)
    \/ \E id \in 1..MaxRows : update_entry(id, <<" ", "a", " ">>, NoSection)
    \/ \E id \in 1..(MaxRows + 1) : soft_delete_entry(id)
    \/ \E id \in 1..(MaxRows + 1), u \in Users : restore_entry(id, u)
    \/ \E u \in Users, g \in {1, NoGroup} : list_entries_today(u, g)
    \/ \E u \in Users, g \in {1, NoGroup} : get_daily_progress(u, today, g)
    \/ \E u \in Users, g \in {1, NoGroup} : streak(u, g)

SpecRestore == Init /\ [][NextRestore]_vars

\* creation with every kind of content, over entries that are edited and
\* soft-deleted
NextCreate ==
    \/ \E u \in Users, s \in {"Health", "Hela"}, c \in RawContents \cup {<<>>, <<"b">>} :
          create_entry(u, 1, s, c, NoDate)
    \/ \E id \in 1..MaxRows : update_entry(id, <<"c">>, NoSection)
    \/ \E id \in 1..MaxRows : soft_delete_entry(id)

SpecCreate == Init /\ [][NextCreate]_vars

\* daily progress of the entry service (one user, two groups) and the
\* history of the REST application (one user, one group)
NextProgress ==
    \/ \E g \in Groups, s \in {"Health", "Hela"} : create_entry(1, g, s, <<"a">>, NoDate)
    \/ \E id \in 1..MaxRows : soft_delete_entry(id)
    \/ \E d \in Days, g \in Groups \cup {NoGroup} : get_daily_progress(1, d, g)
    \/ rest_create_group(1, "A")
    \/ \E s \in VALID_SECTIONS : rest_create_or_update_entry(1, 1, s, <<"a">>, NoDate)
    \/ rest_get_history(1, 1, NoUser, 1)

SpecProgress == Init /\ [][NextProgress]_vars

\* group analytics asked by admins, members, former members and strangers
NextGroupAnalytics ==
    \/ \E u \in Users : createGroup(u, "A")
    \/ \E m \in Users : addGroupMember(1, 1, m)
    \/ \E m \in Users : removeGroupMember(1, 1, m, TRUE)
    \/ \E g \in 1..MaxSvcGroup : soft_delete_group(g)
    \/ \E caller \in Users \cup {NoCaller}, g \in 1..(MaxSvcGroup + 1) :
          groupAnalytics(caller, g)
    \/ \E caller \in Users \cup {NoCaller}, g \in 1..(MaxSvcGroup + 1) :
          get_group_analytics_endpoint(caller, g)

SpecGroupAnalytics == Init /\ [][NextGroupAnalytics]_vars

\* global analytics and audit logs asked by every kind of caller
NextAdminRead ==
    \/ \E u \in Users : createGroup(u, "A")
    \/ \E u \in Users : promoteToGroupAdmin(1, u, 1)
    \/ \E caller \in Users \cup {NoCaller},
          role_header \in {NoHeader, "USER", "SUPER_ADMIN"}, audit_commit \in BOOLEAN :
          /\ Len(audit_logs) < MaxAudit
          /\ globalAnalytics(caller, role_header, audit_commit)
    \/ \E caller \in Users \cup {NoCaller}, audit_commit \in BOOLEAN :
          /\ Len(audit_logs) < MaxAudit
          /\ auditLogs(caller, audit_commit)
    \/ \E caller \in Users \cup {NoCaller} : get_global_analytics_endpoint(caller)
    \/ \E caller \in Users \cup {NoCaller}, audit_commit \in BOOLEAN :
          /\ Len(audit_logs) < MaxAudit
          /\ get_audit_logs_endpoint(caller, audit_commit)

SpecAdminRead == Init /\ [][NextAdminRead]_vars

\* REST: group ownership and membership, with database errors in create_group
NextOwner ==
    \/ \E u \in RestUsers, e \in {"none", "first", "second"} :
          rest_create_group_commits(u, "A", e)
    \/ \E g \in 1..MaxRestGroup, u \in RestUsers,
          m \in RestUsers \cup {NoUser} : rest_add_member(g, u, m)
    \/ \E g \in 1..MaxRestGroup, u \in RestUsers, m \in RestUsers :
          rest_remove_member(g, m, u)
    \/ \E g \in 1..MaxRestGroup, u \in RestUsers,
          m \in 1..(MaxRestUser + 1) : rest_transfer_ownership(g, u, m)
    \/ \E g \in 1..MaxRestGroup, u \in RestUsers : rest_get_entries(g, NoDate, NoUser, u)
    \/ \E g \in 1..MaxRestGroup, u \in RestUsers : rest_get_streak(g, NoUser, u)
    \/ \E g \in 1..MaxRestGroup, u \in RestUsers : rest_get_history(g, 1, NoUser, u)

SpecOwner == InitRest /\ [][NextOwner]_vars

\* two groups administered by the same group admin, as left by two
\* createGroup calls and two promotions of user 2 by the super admin
InitAdmins ==
    /\ InitTables
    /\ is_production = FALSE
    /\ email_configured = FALSE
    /\ svc_groups = <<[name |-> "A", admin_id |-> 2, deleted_at |-> NoDate],
                      [name |-> "B", admin_id |-> 2, deleted_at |-> NoDate]>>
    /\ users = [u \in Users |->
                   [role |-> IF u = 1 THEN "SUPER_ADMIN" ELSE "GROUP_ADMIN",
                    deleted_at |-> NoDate]]

\* promotions and demotions over the two groups
NextAdmins ==
    \/ \E caller \in Users \cup {NoCaller}, u \in Users, g \in {1, 2} :
          promoteToGroupAdmin(caller, u, g)
    \/ \E caller \in Users \cup {NoCaller}, u \in Users, g \in {1, 2} :
          demoteToUser(caller, u, g)

SpecAdmins == InitAdmins /\ [][NextAdmins]_vars

\* the rate limiter called by one thread at a time
NextRateSeq ==
    \/ Advance
    \/ \E key \in Keys : check_rate_limit_now(1, key)
    \/ check_rate_limit_locked(1, GDPR_EXPORT_LIMIT, WindowSeconds)

SpecRateSeq == Init /\ [][NextRateSeq]_vars

\* the rate limiter called by concurrent threads on one key
NextRateConc ==
    \/ Advance
    \/ \E t \in Threads : check_rate_limit_now(t, "gdpr_export:1:-")
    \/ \E t \in Threads : check_rate_limit_locked(t, GDPR_EXPORT_LIMIT, WindowSeconds)

SpecRateConc == Init /\ [][NextRateConc]_vars

\* edits of one user's entries: every content, with and without a section
NextEdit ==
    \/ \E s \in SectionType : create_entry(1, 1, s, <<"a">>, NoDate)
    \/ \E id \in 1..MaxRows, c \in RawContents \cup {NoContent},
          s \in SectionType \cup {NoSection} : update_entry(id, c, s)
    \/ \E id \in 1..MaxRows : soft_delete_entry(id)
    \/ \E id \in 1..MaxRows : restore_entry(id, 1)

SpecEdit == Init /\ [][NextEdit]_vars

\* group administration: creation, renaming, promotion and demotion
NextRole ==
    \/ \E caller \in Users : createGroup(caller, "A")
    \/ \E caller \in Users, g \in 1..MaxSvcGroup : updateGroup(caller, g, "B")
    \/ \E caller \in Users \cup {NoCaller}, u \in 1..(MaxUser + 1),
          g \in 1..(MaxSvcGroup + 1) : promoteToGroupAdmin(caller, u, g)
    \/ \E caller \in Users \cup {NoCaller}, u \in 1..(MaxUser + 1),
          g \in 1..(MaxSvcGroup + 1) : demoteToUser(caller, u, g)
    \/ \E caller \in Users, u \in Users : softDeleteUser(caller, u, TRUE)

SpecRole == Init /\ [][NextRole]_vars

\* soft deletion of users next to the queries that should skip them
NextSoftDelete ==
    \/ createGroup(1, "A")
    \/ \E m \in Users : addGroupMember(1, 1, m)
    \/ \E u \in Users : create_entry(u, 1, "Health", <<"a">>, NoDate)
    \/ \E u \in Users, m \in Users : softDeleteUser(u, m, TRUE)
    \/ \E u \in 1..(MaxUser + 1), password_ok \in BOOLEAN :
          authenticate_user(u, password_ok)
    \/ \E g \in 1..MaxSvcGroup : get_group_analytics(g)
    \/ get_global_analytics

SpecSoftDelete == Init /\ [][NextSoftDelete]_vars

\* registration and password-reset requests
NextReset ==
    \/ \E email \in Emails : register(email)
    \/ \E email \in Emails, send_ok \in BOOLEAN, db_ok \in BOOLEAN :
          forgot_password(email, send_ok, db_ok)
    \/ \E email \in Emails : minimal_forgot_password(email)

SpecReset == InitReset /\ [][NextReset]_vars

\* GraphQL entry mutations sent by any principal, or by none
NextEntryAuth ==
    \/ \E caller \in Users \cup {NoCaller}, u \in Users, s \in {"Health", "Hela"} :
          Mutation_create_entry(caller, u, 1, s, <<"a">>, NoDate)
    \/ \E caller \in Users \cup {NoCaller}, id \in 1..MaxRows,
          c \in {NoContent, <<"b">>}, s \in {NoSection, "Hela"} :
          Mutation_update_entry(caller, id, c, s)
    \/ \E caller \in Users \cup {NoCaller}, id \in 1..MaxRows :
          Mutation_delete_entry(caller, id)
    \/ \E caller \in Users \cup {NoCaller}, id \in 1..MaxRows :
          restoreEntry(caller, id)

SpecEntryAuth == Init /\ [][NextEntryAuth]_vars

\* ================================================================ claims

Active(i) == section_entries[i].deleted_at = NoDate

\* C1: in every state reached by sequential create_entry, update_entry,
\* soft_delete_entry and restore_entry calls, no two active rows of
\* section_entries share (user_id, group_id, section_type, entry_date).
C1_OneActiveEntryPerKey ==
    \A i, j \in DOMAIN section_entries :
        (i # j /\ Active(i) /\ Active(j)) =>
            ~SameKey(section_entries[i], section_entries[j])

\* C1 witness: an update_entry or restore_entry that would have made a
\* second active row for a key was turned down by the unique index, while a
\* soft-deleted row and an active row share a key.
C1_Witness ==
    /\ result.op \in {"update_entry", "restore_entry"}
    /\ result.status = "IntegrityError"
    /\ Len(section_entries) = 2
    /\ \E i \in DOMAIN section_entries : Active(i)

\* C2: concurrent creates of one key never end in an internal error
\* (ERR_GRAPHQL / 500): the request that loses gets the validation error of
\* the sequential case, and no second active row appears.
C2_RaceLoserGetsValidationError ==
    /\ \A p \in Procs : race_reply[p] # "ERR_GRAPHQL"
    /\ C1_OneActiveEntryPerKey

\* C3: create_entry with an entry_date after today raises a validation
\* error and inserts no row, so no row is ever inserted with an entry_date
\* later than the day of the insert.
C3_FutureDateRejected ==
    [][/\ \A u \in Users, g \in Groups, s \in SectionType, c \in RawContents,
             d \in Days :
               (d > today /\ create_entry(u, g, s, c, d)) =>
                   /\ result'.status \in
                        {"ValueError: Content must not be empty",
                         "ValueError: Entry date cannot be in the future"}
                   /\ section_entries' = section_entries
       /\ \A i \in DOMAIN section_entries' \ DOMAIN section_entries :
               section_entries'[i].entry_date <= today]_vars

\* C4: calculate_streak(user, group?) is the largest k such that each of
\* today, today-1, ..., today-(k-1) has an active entry of the user (in the
\* group when one is given); it is 0 when today has none; soft-deleted rows
\* do not count.
HasActiveEntryOn(u, g, d) ==
    \E i \in DOMAIN section_entries :
        /\ Active(i)
        /\ section_entries[i].user_id = u
        /\ section_entries[i].entry_date = d
        /\ (g # NoGroup => section_entries[i].group_id = g)

IsRun(u, g, k) == \A i \in 0..(k - 1) : HasActiveEntryOn(u, g, today - i)

C4_StreakIsLongestRunFromToday ==
    \A u \in Users, g \in Groups \cup {NoGroup} :
        LET k == calculate_streak(u, g) IN
        /\ IsRun(u, g, k)
        /\ ~IsRun(u, g, k + 1)
        /\ (~HasActiveEntryOn(u, g, today) => k = 0)

\* C4 witness: a streak query answered 1 for a user whose table holds an
\* active entry of today and only a soft-deleted one of yesterday
C4_Witness ==
    /\ result.op = "calculate_streak"
    /\ result.value = 1
    /\ \E u \in Users, g \in Groups :
        /\ calculate_streak(u, g) = 1
        /\ HasActiveEntryOn(u, g, today)
        /\ ~HasActiveEntryOn(u, g, today - 1)
        /\ \E i \in DOMAIN section_entries :
              /\ ~Active(i)
              /\ section_entries[i].user_id = u
              /\ section_entries[i].group_id = g
              /\ section_entries[i].entry_date = today - 1

\* C5: get_streak answers the length of the run of consecutive days, each
\* with all 3 sections of the target user in the group, that ends today
\* or, only when today is not complete, yesterday; any other missing or
\* incomplete day ends the run.
IsComplete(u, g, d) == d \in CompleteDates(u, g)

RECURSIVE RunEndingOn(_, _, _)
RunEndingOn(u, g, d) ==
    IF IsComplete(u, g, d) THEN 1 + RunEndingOn(u, g, d - 1) ELSE 0

ConsecutiveCompleteDays(u, g) ==
    IF IsComplete(u, g, today)
    THEN RunEndingOn(u, g, today)
    ELSE RunEndingOn(u, g, today - 1)

C5_StreakIsConsecutiveRun ==
    [][\A g \in 1..MaxRestGroup, m \in RestUsers \cup {NoUser}, u \in RestUsers :
          (rest_get_streak(g, m, u) /\ rest_result'.status = 200) =>
              rest_result'.data.streak =
                  ConsecutiveCompleteDays(TargetUser(m, u), g)]_vars

\* the three read handlers of main.py
ReadOps == {"get_entries", "get_streak", "get_history"}

\* the last response answered a read of caller's, and the tables are as the
\* handler found them (reads change nothing)
OwnerReadsMember(r) ==
    /\ GroupExists(r.group_id)
    /\ rest_groups[r.group_id].owner_id = r.caller
    /\ IsMember(r.group_id, r.user_id)

\* no read of a caller who is not the current owner gives another user's
\* data: a served get_entries holds only the caller's rows and a served
\* get_streak the caller's own streak, unless the caller is the owner and
\* the target a member; a served read naming another user is the owner's
NoCrossUserRead ==
    LET r == rest_result IN
    (r.op \in ReadOps /\ r.status = 200 /\ ~OwnerReadsMember(r)) =>
        /\ r.user_id \in {NoUser, r.caller}
        /\ r.op = "get_entries" => \A e \in r.data : e.user_id = r.caller
        /\ r.op = "get_streak" => r.data = StreakResponse(r.caller, r.group_id)
        /\ r.op = "get_history" =>
               \A day \in r.data : \A sec \in day.completed_sections :
                   \E e \in rest_entries :
                       /\ e.user_id = r.caller
                       /\ e.group_id = r.group_id
                       /\ e.date = day.date
                       /\ e.section = sec

\* C6 as stated: no cross-user read for a non-owner, and a caller without a
\* membership in the group gets 403 from each of the three handlers
C6_NonMemberAlways403 ==
    LET r == rest_result IN
    /\ NoCrossUserRead
    /\ (r.op \in ReadOps /\ GroupExists(r.group_id)
          /\ ~IsMember(r.group_id, r.caller)) => r.status = 403

\* C6, amended: no cross-user read for a non-owner; a caller without a
\* membership in the group is refused by each of the three handlers, with
\* 403, except that get_history answers 400 to a days parameter outside
\* 1..MAX_HISTORY_DAYS, which it checks before the membership.
C6_CrossUserReadConfidentiality ==
    LET r == rest_result IN
    /\ NoCrossUserRead
    /\ (r.op \in ReadOps /\ GroupExists(r.group_id)
          /\ ~IsMember(r.group_id, r.caller)) =>
            \/ r.status = 403
            \/ r.op = "get_history" /\ r.status = 400

\* C6 witness: a member who is not the owner asked get_entries for another
\* member's entries, that member having some, and was refused with 403
C6_Witness ==
    LET r == rest_result IN
    /\ r.op = "get_entries"
    /\ r.status = 403
    /\ IsMember(r.group_id, r.caller)
    /\ rest_groups[r.group_id].owner_id # r.caller
    /\ r.user_id \notin {NoUser, r.caller}
    /\ \E e \in rest_entries : e.user_id = r.user_id /\ e.group_id = r.group_id

\* C7: a user with a membership in a group can always read their own
\* entries, streak and history there, whether user_id is omitted or is
\* their own id, and can always write their own entries, owner or not
\* (a request is only turned down, with 400, for a bad date or days value).
C7_SelfAccess ==
    LET r == rest_result IN
    (/\ r.op \in ReadOps \cup {"create_or_update_entry"}
     /\ GroupExists(r.group_id)
     /\ IsMember(r.group_id, r.caller)
     /\ r.user_id \in {NoUser, r.caller}) => r.status \in {200, 400}

\* the REST group mutations asked of an existing group by someone who is not
\* its current owner are answered 403 and change nothing
RestMutationOps == {"update_group", "add_member", "remove_member",
                    "transfer_ownership"}

RestMutationsOwnerOnly ==
    LET r == rest_result' IN
    (/\ r # rest_result
     /\ r.op \in RestMutationOps
     /\ GroupExists(r.group_id)
     /\ rest_groups[r.group_id].owner_id # r.caller) =>
        /\ r.status = 403
        /\ rest_groups' = rest_groups
        /\ rest_members' = rest_members

\* the same for the GraphQL mutations updateGroup, addGroupMember and
\* removeGroupMember asked by an authenticated user who is not the admin
GqlMutationOps == {"updateGroup", "addGroupMember", "removeGroupMember"}

GqlMutationsOwnerOnly ==
    LET r == gql_result' IN
    (/\ r # gql_result
     /\ r.op \in GqlMutationOps
     /\ r.caller # NoCaller
     /\ ActiveGroup(r.group_id)
     /\ svc_groups[r.group_id].admin_id # r.caller) =>
        /\ r.status = "ERR_FORBIDDEN"
        /\ svc_groups' = svc_groups
        /\ group_members' = group_members

\* C8: add member, remove member, update group and transfer ownership take
\* effect only for the group's current owner; any other authenticated
\* caller is refused as forbidden and name, owner and memberships stay as
\* they were, on the REST handlers and on the GraphQL mutations.
C8_GroupMutationOwnerOnly ==
    [][RestMutationsOwnerOnly /\ GqlMutationsOwnerOnly]_vars

C10_OwnerNeverRemoved ==
    [][/\ \A g \in DOMAIN rest_groups :
            IsMember(g, rest_groups[g].owner_id) =>
                <<g, rest_groups'[g].owner_id>> \in rest_members'
       /\ \A g \in DOMAIN svc_groups :
            ActiveMemberships(group_members, g, svc_groups[g].admin_id) # {} =>
                ActiveMemberships(group_members', g, svc_groups'[g].admin_id) # {}
       /\ (/\ gql_result' # gql_result
           /\ gql_result'.op = "removeGroupMember"
           /\ ActiveGroup(gql_result'.group_id)
           /\ gql_result'.user_id = svc_groups[gql_result'.group_id].admin_id) =>
               gql_result'.status # "ok"]_vars

\* C11: at most one active membership per (group_id, user_id); add_member
\* on a pair with an active membership raises a conflict and adds no row;
\* add_member for a missing or soft-deleted group or user raises not-found
\* and adds no row; otherwise -- in particular after remove_member -- the
\* user is added and has exactly one active membership.
C11_MembershipUniqueness ==
    [][LET r == gql_result'
           g == r.group_id
           u == r.user_id
       IN
       /\ \A h \in DOMAIN svc_groups', v \in Users :
              Cardinality(ActiveMemberships(group_members', h, v)) <= 1
       /\ (r # gql_result /\ r.op = "addGroupMember" /\ r.caller # NoCaller) =>
              IF ~ActiveGroup(g) \/ ~ActiveUser(u)
              THEN /\ r.status \in {"404: Group not found", "404: User not found"}
                   /\ group_members' = group_members
              ELSE IF ActiveMemberships(group_members, g, u) # {}
              THEN /\ r.status = "409: User already in group"
                   /\ group_members' = group_members
              ELSE /\ r.status = "ok"
                   /\ Cardinality(ActiveMemberships(group_members', g, u)) = 1]_vars

\* who may write an entry of user u in group g: u, authenticated, with an
\* active membership in g
MayWriteEntry(caller, u, g) ==
    /\ caller # NoCaller
    /\ caller = u
    /\ ActiveMemberships(group_members, g, u) # {}

\* C12: an entry is created, updated, soft-deleted or restored only for an
\* authenticated principal who is the entry's user and an active member of
\* its group, on REST create_or_update_entry and on the GraphQL mutations
\* create_entry, update_entry, delete_entry and restoreEntry.
C12_EntryWriteAuthorization ==
    [][/\ \A caller \in Users \cup {NoCaller}, u \in Users, g \in Groups,
             s \in SectionType, c \in {<<"a">>} :
            (/\ Mutation_create_entry(caller, u, g, s, c, NoDate)
             /\ section_entries' # section_entries) => MayWriteEntry(caller, u, g)
       /\ \A caller \in Users \cup {NoCaller}, id \in DOMAIN section_entries :
            (/\ section_entries'[id] # section_entries[id]
             /\ \/ \E c \in {NoContent, <<"b">>}, s \in SectionType \cup {NoSection} :
                      Mutation_update_entry(caller, id, c, s)
                \/ Mutation_delete_entry(caller, id)
                \/ restoreEntry(caller, id)) =>
                MayWriteEntry(caller, section_entries[id].user_id,
                              section_entries[id].group_id)
       /\ (rest_result'.op = "create_or_update_entry"
             /\ rest_entries' # rest_entries) =>
            \A e \in rest_entries' \ rest_entries :
                /\ e.user_id = rest_result'.caller
                /\ IsMember(e.group_id, e.user_id)]_vars

\* C13: the audit log is append-only: every step keeps each audit row
\* already written, unchanged and in place (soft_delete_user and
\* delete_user_account of the acting user included), so the rows only grow.
C13_AuditLogAppendOnly ==
    [][/\ Len(audit_logs') >= Len(audit_logs)
       /\ SubSeq(audit_logs', 1, Len(audit_logs)) = audit_logs]_vars

\* the rows of a table that belong to user_id
RowsOf(rows, user_id) == {i \in DOMAIN rows : rows[i].user_id = user_id}

\* C14: a confirmed delete_user_account of an active user is a soft delete:
\* afterwards the user row still exists with deleted_at set, each of the
\* user's entries and memberships still exists with deleted_at set, and
\* the audit rows are all still present; no row is physically removed.
\* (email, name, password hash and their anonymization are not carried by
\* the model.)
C14_GdprDeletionIsSoftDelete ==
    [][\A caller \in Users :
          (ActiveUser(caller) /\ deleteMyAccount(caller, TRUE)) =>
            /\ caller \in DOMAIN users'
            /\ users'[caller].deleted_at # NoDate
            /\ Len(section_entries') = Len(section_entries)
            /\ RowsOf(section_entries', caller) = RowsOf(section_entries, caller)
            /\ \A i \in RowsOf(section_entries', caller) :
                  section_entries'[i].deleted_at # NoDate
            /\ Len(group_members') = Len(group_members)
            /\ RowsOf(group_members', caller) = RowsOf(group_members, caller)
            /\ \A i \in RowsOf(group_members', caller) :
                  group_members'[i].deleted_at # NoDate
            /\ audit_logs' = audit_logs]_vars

\* the moderation state of entry id
FlagState(entries, id) == <<entries[id].is_flagged, entries[id].flagged_reason>>

\* C15: moderation is always audited: a step that changes an entry's
\* is_flagged / flagged_reason appends exactly one AuditLog row with action
\* flag_entry / unflag_entry, the acting user and the entry id (also when
\* the audit insert fails after the flag was committed); a flagEntry /
\* unflagEntry call on a missing or soft-deleted entry raises and appends
\* no row.
C15_ModerationAlwaysAudited ==
    [][/\ \A id \in DOMAIN section_entries :
            (/\ id \in DOMAIN section_entries'
             /\ FlagState(section_entries', id) # FlagState(section_entries, id)) =>
                /\ audit_logs' = Append(audit_logs,
                       AuditLog(gql_result'.caller,
                                IF section_entries'[id].is_flagged
                                THEN "flag_entry" ELSE "unflag_entry",
                                "entry", id))
       /\ \A caller \in Users, id \in 1..(MaxRows + 1), audit_commit \in BOOLEAN :
            (/\ ~IsActiveEntry(id)
             /\ \/ flagEntry(caller, id, "spam", audit_commit)
                \/ unflagEntry(caller, id, audit_commit)) =>
                /\ audit_logs' = audit_logs
                /\ gql_result'.status \in {"ValueError: Entry not found",
                                           "ERR_FORBIDDEN"}]_vars

\* C16: forgot_password answers a registered email exactly as it answers
\* any other email (same fields, same values) in the same configuration
\* (production or not, email configured or not, sending succeeding or
\* failing), in backend/main.py and in minimal/backend/main.py.
C16_ResetNonDisclosure ==
    [][/\ \A email \in Emails, send_ok \in BOOLEAN, db_ok \in BOOLEAN :
            forgot_password(email, send_ok, db_ok) =>
                \A other \in Emails :
                    fp_response'.body = forgot_password_response(other, send_ok, db_ok)
       /\ \A email \in Emails :
            minimal_forgot_password(email) =>
                \A other \in Emails :
                    fp_response'.body = minimal_forgot_password_response(other)]_vars

\* rows of a table that belong to users who are not soft-deleted
OfActiveUsers(rows, idx) == {i \in idx : ActiveUser(rows[i].user_id)}

\* C17: a soft-deleted user is excluded from the active queries:
\* authenticate_user refuses the user, get_group_analytics.member_count
\* does not count the user's memberships, and total_entries / active_users
\* of get_group_analytics and get_global_analytics do not count the user's
\* entries.
C17_SoftDeletedUsersExcluded ==
    [][/\ \A u \in Users, password_ok \in BOOLEAN :
            (authenticate_user(u, password_ok) /\ ~ActiveUser(u)) =>
                gql_result'.status # "ok"
       /\ \A g \in 1..MaxSvcGroup :
            get_group_analytics(g) =>
                LET members == {i \in DOMAIN group_members :
                                  /\ group_members[i].group_id = g
                                  /\ group_members[i].deleted_at = NoDate}
                    entries == {i \in DOMAIN section_entries :
                                  /\ section_entries[i].group_id = g
                                  /\ InPeriod(section_entries[i])}
                    live == OfActiveUsers(section_entries, entries)
                IN
                /\ gql_result'.data.member_count =
                      Cardinality(OfActiveUsers(group_members, members))
                /\ gql_result'.data.total_entries = Cardinality(live)
                /\ gql_result'.data.active_users =
                      Cardinality({section_entries[i].user_id : i \in live})
       /\ get_global_analytics =>
            LET entries == {i \in DOMAIN section_entries : InPeriod(section_entries[i])}
                live == OfActiveUsers(section_entries, entries)
            IN
            /\ gql_result'.data.total_entries = Cardinality(live)
            /\ gql_result'.data.active_users =
                  Cardinality({section_entries[i].user_id : i \in live})]_vars

\* C18: every active group has exactly one owner/admin: its admin_id
\* (owner_id in the REST store) is never empty and names an existing user.
C18_ExactlyOneAdminPerGroup ==
    /\ \A g \in DOMAIN svc_groups :
          ActiveGroup(g) => svc_groups[g].admin_id \in DOMAIN users
    /\ \A g \in DOMAIN rest_groups : rest_groups[g].owner_id \in RestUsers

C20_EditCount ==
    [][/\ Len(section_entries') > Len(section_entries) =>
            section_entries'[Len(section_entries')].edit_count = 0
       /\ \A id \in DOMAIN section_entries :
            /\ id \in DOMAIN section_entries'
            /\ section_entries'[id].edit_count >= section_entries[id].edit_count
       /\ \A id \in 1..MaxRows, c \in RawContents \cup {NoContent},
             s \in SectionType \cup {NoSection} :
            (update_entry(id, c, s) /\ IsActiveEntry(id)) =>
                IF c # NoContent /\ strip(c) = <<>>
                THEN /\ result'.status = "ValueError: Content must not be empty"
                     /\ section_entries' = section_entries
                ELSE IF result'.status = "ok"
                THEN section_entries'[id].edit_count =
                        section_entries[id].edit_count + (IF c # NoContent THEN 1 ELSE 0)
                ELSE section_entries' = section_entries]_vars

\* a served update_entry has counted an edit of entry 1 and stored the
\* trimmed content
C20_Witness ==
    /\ result.op = "update_entry"
    /\ result.status = "ok"
    /\ 1 \in DOMAIN section_entries
    /\ section_entries[1].edit_count = 1
    /\ section_entries[1].content = <<"a">>

\* entry id is soft-deleted
SoftDeleted(id) ==
    id \in DOMAIN section_entries /\ section_entries[id].deleted_at # NoDate

\* another active row holds the key of entry id
KeyTaken(id) ==
    \E j \in DOMAIN section_entries :
        /\ j # id
        /\ section_entries[j].deleted_at = NoDate
        /\ SameKey(section_entries[j], section_entries[id])

\* the errors of restore_entry, and what the queries and the other calls do
\* with a soft-deleted entry
RestoreErrorsAndExclusion ==
    /\ \A id \in 1..(MaxRows + 1), u \in Users :
          (/\ restore_entry(id, u)
           /\ ~(SoftDeleted(id) /\ section_entries[id].user_id = u)) =>
              /\ section_entries' = section_entries
              /\ result'.status =
                    IF id \in DOMAIN section_entries /\ section_entries[id].user_id = u
                    THEN "ValueError: Entry is not deleted"
                    ELSE "ValueError: Entry not found"
    /\ \A id \in DOMAIN section_entries :
          (SoftDeleted(id) /\ section_entries' = section_entries) =>
              /\ result'.op = "list_entries_today" => id \notin result'.value
              /\ result'.op = "get_daily_progress" => id \notin result'.value.entries
              /\ \A u \in Users, g \in {1, NoGroup} :
                    (\A j \in DOMAIN section_entries :
                        (section_entries[j].user_id = u /\ j # id) => SoftDeleted(j))
                    => calculate_streak(u, g) = 0
    /\ \A id \in DOMAIN section_entries :
          (/\ SoftDeleted(id)
           /\ \/ update_entry(id, <<" ", "a", " ">>, NoSection)
              \/ soft_delete_entry(id)) =>
              /\ section_entries' = section_entries
              /\ result'.status = "ValueError: Entry not found or deleted"

\* C21 as stated: restore_entry(e, u) of an entry soft-deleted by
\* soft_delete_entry and owned by u makes e active again with content,
\* section, entry_date and edit_count unchanged; restore_entry of an entry
\* that is not soft-deleted raises the validation error, of a missing entry
\* or for another user raises not-found, both leaving the entry unchanged;
\* a soft-deleted entry is left out by list_entries_today,
\* get_daily_progress and calculate_streak, and update_entry /
\* soft_delete_entry on it raise not-found.
C21_RestoreAlwaysSucceeds ==
    [][/\ RestoreErrorsAndExclusion
       /\ \A id \in DOMAIN section_entries, u \in Users :
            (/\ restore_entry(id, u)
             /\ SoftDeleted(id) /\ section_entries[id].user_id = u) =>
                /\ result'.status = "ok"
                /\ section_entries' =
                      [section_entries EXCEPT ![id].deleted_at = NoDate]]_vars

\* C21, amended: the same, where the restore makes e active again when no
\* other active entry holds e's (user, group, section, date), which is
\* always so directly after soft_delete_entry(e); when one does, the commit
\* is refused with IntegrityError and e stays soft-deleted.
C21_SoftDeleteRestoreRoundTrip ==
    [][/\ RestoreErrorsAndExclusion
       /\ \A id \in DOMAIN section_entries, u \in Users :
            (/\ restore_entry(id, u)
             /\ SoftDeleted(id) /\ section_entries[id].user_id = u) =>
                IF KeyTaken(id)
                THEN /\ result'.status = "IntegrityError"
                     /\ section_entries' = section_entries
                ELSE /\ result'.status = "ok"
                     /\ section_entries' =
                           [section_entries EXCEPT ![id].deleted_at = NoDate]
       /\ \A id \in DOMAIN section_entries :
            (soft_delete_entry(id) /\ result'.status = "ok") =>
                /\ section_entries'[id].deleted_at # NoDate
                /\ ~\E j \in DOMAIN section_entries' :
                      /\ j # id
                      /\ section_entries'[j].deleted_at = NoDate
                      /\ SameKey(section_entries'[j], section_entries'[id])]_vars

\* an edited entry came back from a soft delete with its edit_count
C21_Witness ==
    /\ result.op = "restore_entry"
    /\ result.status = "ok"
    /\ 1 \in DOMAIN section_entries
    /\ section_entries[1].deleted_at = NoDate
    /\ section_entries[1].edit_count = 1

\* C22: create_entry with content empty after trim raises the validation
\* error and adds no row; with content, for a (user, group, section, date)
\* that has an active entry, it raises the validation error "... already
\* exists ..." and leaves every row as it was (no upsert); a served create
\* appends one row holding the trimmed content.
C22_DuplicateCreateIsError ==
    [][\A u \in Users, s \in SectionType, c \in RawContents \cup {<<>>, <<"b">>} :
          create_entry(u, 1, s, c, NoDate) =>
             IF c = <<>> \/ strip(c) = <<>>
             THEN /\ result'.status = "ValueError: Content must not be empty"
                  /\ section_entries' = section_entries
             ELSE IF \E i \in DOMAIN section_entries :
                        /\ section_entries[i].deleted_at = NoDate
                        /\ section_entries[i].user_id = u
                        /\ section_entries[i].group_id = 1
                        /\ section_entries[i].section_type = s
                        /\ section_entries[i].entry_date = today
             THEN /\ result'.status =
                        "ValueError: Entry already exists for this section today"
                  /\ section_entries' = section_entries
             ELSE IF result'.status = "ok"
             THEN /\ Len(section_entries') = Len(section_entries) + 1
                  /\ SubSeq(section_entries', 1, Len(section_entries)) = section_entries
                  /\ section_entries'[Len(section_entries')].content = strip(c)
                  /\ section_entries'[Len(section_entries')].user_id = u
                  /\ section_entries'[Len(section_entries')].section_type = s
             ELSE section_entries' = section_entries]_vars

\* a duplicate create was refused over an entry that had been edited
C22_Witness ==
    /\ result.op = "create_entry"
    /\ result.status = "ValueError: Entry already exists for this section today"
    /\ \E i \in DOMAIN section_entries :
          /\ section_entries[i].deleted_at = NoDate
          /\ section_entries[i].edit_count = 1
          /\ section_entries[i].content = <<"c">>

\* the sections in which user u has an active entry on day d (in group g,
\* or in any group when g is not given)
SectionsDone(u, d, g) ==
    {s \in SectionType :
        \E i \in DOMAIN section_entries :
            /\ section_entries[i].section_type = s
            /\ section_entries[i].user_id = u
            /\ section_entries[i].entry_date = d
            /\ section_entries[i].deleted_at = NoDate
            /\ (g # NoGroup => section_entries[i].group_id = g)}

\* C23: get_daily_progress answers completed_sections = the number of
\* distinct sections with an active entry of the user that day (once per
\* section, however many rows carry it), total_sections = 3,
\* 0 <= completed_sections <= 3 and progress_percentage =
\* completed_sections / 3 * 100; get_history marks a day is_complete
\* exactly when health, happiness and hela each have an entry that day.
C23_DailyCompletion ==
    [][/\ \A u \in Users, d \in Days, g \in Groups \cup {NoGroup} :
            get_daily_progress(u, d, g) =>
                LET p == result'.value IN
                /\ p.completed_sections = Cardinality(SectionsDone(u, d, g))
                /\ p.total_sections = 3
                /\ p.completed_sections >= 0
                /\ p.completed_sections <= 3
                /\ p.progress_percentage = <<p.completed_sections * 100, 3>>
       /\ \A days \in 1..MaxDay :
            (rest_get_history(1, days, NoUser, 1) /\ rest_result'.status = 200) =>
                /\ rest_result'.data # {}
                /\ \A day \in rest_result'.data :
                      day.is_complete <=>
                          \A s \in {"health", "happiness", "hela"} :
                              \E e \in rest_entries :
                                  /\ e.user_id = 1
                                  /\ e.group_id = 1
                                  /\ e.date = day.date
                                  /\ e.section = s]_vars

\* get_daily_progress counted one section for two rows of it in two groups
C23_Witness ==
    /\ result.op = "get_daily_progress"
    /\ result.value.total_entries = 2
    /\ result.value.completed_sections = 1

\* C24: the REST and the GraphQL group-analytics endpoint answer an
\* authenticated caller not-found for a missing or soft-deleted group,
\* before any membership test; otherwise the analytics when the caller is
\* the group's admin or holds an active membership, and forbidden when the
\* caller is not the admin and has no membership or only a soft-deleted one.
C24_GroupAnalyticsAccess ==
    [][\A caller \in Users, g \in 1..(MaxSvcGroup + 1) :
          (groupAnalytics(caller, g) \/ get_group_analytics_endpoint(caller, g)) =>
             IF ~(g \in DOMAIN svc_groups /\ svc_groups[g].deleted_at = NoDate)
             THEN /\ gql_result'.status = "ERR_NOT_FOUND"
                  /\ gql_result'.data = <<>>
             ELSE IF \/ svc_groups[g].admin_id = caller
                     \/ \E i \in DOMAIN group_members :
                           /\ group_members[i].group_id = g
                           /\ group_members[i].user_id = caller
                           /\ group_members[i].deleted_at = NoDate
             THEN /\ gql_result'.status = "ok"
                  /\ gql_result'.data = group_analytics(g)
             ELSE /\ gql_result'.status = "ERR_FORBIDDEN"
                  /\ gql_result'.data = <<>>]_vars

\* a former member, whose only membership is soft-deleted, was refused
C24_Witness ==
    /\ gql_result.op \in {"groupAnalytics", "get_group_analytics_endpoint"}
    /\ gql_result.status = "ERR_FORBIDDEN"
    /\ \E i \in DOMAIN group_members :
          /\ group_members[i].group_id = gql_result.group_id
          /\ group_members[i].user_id = gql_result.caller
          /\ group_members[i].deleted_at # NoDate

\* C25: global analytics and audit logs are served to SUPER_ADMIN callers
\* only: an authenticated caller with another role is refused as forbidden
\* and gets no data, whatever groups the caller owns and whether or not the
\* unauthorized_access audit event could be written; an unauthenticated
\* caller gets unauthorized and no data.
C25_SuperAdminOnlyReads ==
    [][\A caller \in Users \cup {NoCaller},
          role_header \in {NoHeader, "USER", "SUPER_ADMIN"}, audit_commit \in BOOLEAN :
          (\/ globalAnalytics(caller, role_header, audit_commit)
           \/ auditLogs(caller, audit_commit)
           \/ get_global_analytics_endpoint(caller)
           \/ get_audit_logs_endpoint(caller, audit_commit)) =>
             IF caller = NoCaller
             THEN /\ gql_result'.status \in {"ERR_UNAUTHORIZED", "401"}
                  /\ gql_result'.data = <<>>
             ELSE users[caller].role # "SUPER_ADMIN" =>
                  /\ gql_result'.status \in {"ERR_FORBIDDEN", "ERR_SUPERADMIN_REQUIRED"}
                  /\ gql_result'.data = <<>>]_vars

\* calls on key answered True with a timestamp in [from, from + length]
RECURSIVE AdmittedIn(_, _, _)
AdmittedIn(key, from, length) ==
    IF length < 0 \/ from + length < 0 THEN 0
    ELSE (IF from + length \in 0..MaxTime THEN admitted[key][from + length] ELSE 0)
         + AdmittedIn(key, from, length - 1)

\* timestamps recorded for key that lie inside the window of a call at now
InWindow(key, now) ==
    {i \in DOMAIN STORE[key] : STORE[key][i] >= now - WindowSeconds}

\* C26: for sequential calls, on every key the calls answered True within
\* any interval of length window_seconds number at most limit; a call is
\* answered True exactly when fewer than limit recorded calls lie inside
\* its window; a call answered False records nothing; and a call on one
\* key leaves the other keys' records alone.
C26_SlidingWindowBound ==
    /\ [](\A key \in Keys, from \in 0..MaxTime :
            AdmittedIn(key, from, WindowSeconds) <= GDPR_EXPORT_LIMIT)
    /\ [][check_rate_limit_locked(1, GDPR_EXPORT_LIMIT, WindowSeconds) =>
            LET key == rl_key[1]
                now == rl_now[1]
            IN
            /\ rl_reply'.allowed <=>
                  Cardinality(InWindow(key, now)) < GDPR_EXPORT_LIMIT
            /\ ~rl_reply'.allowed =>
                  /\ Len(STORE'[key]) <= Len(STORE[key])
                  /\ admitted' = admitted
            /\ \A other \in Keys \ {key} : STORE'[other] = STORE[other]]_vars

\* a call was refused at the limit and a later one, the window having
\* moved on, was answered True
C26_Witness ==
    /\ rl_reply.allowed
    /\ rl_reply.now > WindowSeconds
    /\ \E key \in Keys : AdmittedIn(key, 0, MaxTime) > GDPR_EXPORT_LIMIT

\* C27: in every reachable state of backend/main.py, each group's owner has
\* a membership row in that group, and a read by the owner is never
\* refused for want of membership.
C27_OwnerIsAlwaysMember ==
    /\ \A g \in DOMAIN rest_groups : IsMember(g, rest_groups[g].owner_id)
    /\ (/\ rest_result.op \in {"get_entries", "get_streak", "get_history"}
        /\ rest_result.group_id \in DOMAIN rest_groups
        /\ rest_result.caller = rest_groups[rest_result.group_id].owner_id)
       => rest_result.status # 403

\* C28: a promote_to_group_admin or demote_to_user call never takes the
\* SUPER_ADMIN role from a user who held it before the call, be it the
\* caller, the target or the group's previous admin.
C28_SuperAdminKeepsRole ==
    [][gql_result'.op \in {"promoteToGroupAdmin", "demoteToUser"} =>
          \A u \in DOMAIN users :
              users[u].role = "SUPER_ADMIN" => users'[u].role = "SUPER_ADMIN"]_vars

\* C29: starting with every active group's admin holding GROUP_ADMIN, after
\* any promotions and demotions every user who is admin_id of an active
\* group still holds the GROUP_ADMIN role.
C29_AdminsHoldGroupAdminRole ==
    \A g \in DOMAIN svc_groups :
        (ActiveGroup(g) /\ svc_groups[g].admin_id \in DOMAIN users) =>
            users[svc_groups[g].admin_id].role = "GROUP_ADMIN"

\* the deque of key is ordered by non-decreasing timestamp
Ordered(key) ==
    \A i, j \in DOMAIN STORE[key] : i < j => STORE[key][i] <= STORE[key][j]

\* C30: with concurrent callers on one key the deque stays ordered by
\* timestamp, the admitted calls in any interval of window length number
\* at most limit, and a call is refused only if limit recorded timestamps
\* lie inside its window.
C30_ConcurrentLimiter ==
    /\ [](\A key \in Keys : Ordered(key))
    /\ [](\A key \in Keys, from \in 0..MaxTime :
            AdmittedIn(key, from, WindowSeconds) <= GDPR_EXPORT_LIMIT)
    /\ [][\A t \in Threads :
            (check_rate_limit_locked(t, GDPR_EXPORT_LIMIT, WindowSeconds)
                /\ ~rl_reply'.allowed) =>
              Cardinality(InWindow(rl_key[t], rl_now[t])) >= GDPR_EXPORT_LIMIT]_vars

====
